---------------------------- MODULE Spec2Model ----------------------------
(***************************************************************************)
(* TKTrading dashboard: the enrichment / classification / gate / sort      *)
(* pipeline and the strategy loader of assets/app.js.                      *)
(*                                                                         *)
(* Numbers are fixed-point: the integer n of a "num" value stands for the  *)
(* JavaScript number n/100 (score 1.5 is 150, trades 20 is 2000).  Strings *)
(* are sequences of one-character strings, so that trim, toLowerCase,      *)
(* includes, Number() and localeCompare are computed and not assumed.      *)
(***************************************************************************)
EXTENDS Integers, Sequences, FiniteSets, TLC

VARIABLES
  strategySelect,  \* index of the selected <option> of #strategySelect
  viewSelect,      \* viewSelect.value
  gateSelect,      \* gateSelect.value
  gateOnly,        \* gateOnly.checked
  search,          \* search.value
  latest,          \* main(): let latest
  archive,         \* main(): let archive
  sortByView,      \* main(): const sortByView
  metaEl, linksEl, thead, tbody, titleEl, hintEl,   \* the DOM the handlers write
  loads,           \* the loadStrategy invocations: position and locals of each
  events,          \* number of user events delivered so far
  call, result     \* the call under test; its frame while it runs, then its return value

vars == << strategySelect, viewSelect, gateSelect, gateOnly, search, latest,
           archive, sortByView, metaEl, linksEl, thead, tbody, titleEl, hintEl,
           loads, events, call, result >>

uiVars == << strategySelect, viewSelect, gateSelect, gateOnly, search, latest,
             archive, sortByView, metaEl, linksEl, thead, tbody, titleEl,
             hintEl, loads, events >>

---------------------------------------------------------------------------
(* JavaScript values *)

Null == [t |-> "null", n |-> 0, s |-> <<>>]
Undef == [t |-> "undef", n |-> 0, s |-> <<>>]
NaN == [t |-> "nan", n |-> 0, s |-> <<>>]
PosInf == [t |-> "inf", n |-> 0, s |-> <<>>]
Num(x) == [t |-> "num", n |-> x, s |-> <<>>]
Str(x) == [t |-> "str", n |-> 0, s |-> x]

\* x === null || x === undefined
IsNullish(v) == v.t \in {"null", "undef"}

\* a ?? b
Coalesce(a, b) == IF IsNullish(a) THEN b ELSE a

\* !!v
Truthy(v) ==
  CASE v.t \in {"null", "undef", "nan"} -> FALSE
    [] v.t = "num" -> v.n # 0
    [] v.t = "str" -> v.s # <<>>
    [] OTHER -> TRUE

\* obj[key], undefined when the object has no such property
Get(obj, key) == IF key \in DOMAIN obj THEN obj[key] ELSE Undef

---------------------------------------------------------------------------
(* Strings *)

Digits == <<"0", "1", "2", "3", "4", "5", "6", "7", "8", "9">>
Uppers == <<"A", "B", "C", "D", "E", "F", "G", "H", "I", "J", "K", "L", "M",
            "N", "O", "P", "Q", "R", "S", "T", "U", "V", "W", "X", "Y", "Z">>
Lowers == <<"a", "b", "c", "d", "e", "f", "g", "h", "i", "j", "k", "l", "m",
            "n", "o", "p", "q", "r", "s", "t", "u", "v", "w", "x", "y", "z">>

IndexOf(seq, c) ==
  IF \E i \in 1..Len(seq) : seq[i] = c
  THEN CHOOSE i \in 1..Len(seq) : seq[i] = c
  ELSE 0

IsDigit(c) == IndexOf(Digits, c) # 0
DigitVal(c) == IndexOf(Digits, c) - 1

\* String.prototype.toLowerCase
LowerChar(c) == IF IndexOf(Uppers, c) # 0 THEN Lowers[IndexOf(Uppers, c)] ELSE c
ToLowerCase(s) == [i \in 1..Len(s) |-> LowerChar(s[i])]

IsSpace(c) == c \in {" ", "\t", "\n", "\r"}

RECURSIVE TrimLeft(_)
TrimLeft(s) ==
  IF s # <<>> /\ IsSpace(Head(s)) THEN TrimLeft(Tail(s)) ELSE s

RECURSIVE TrimRight(_)
TrimRight(s) ==
  IF s # <<>> /\ IsSpace(s[Len(s)]) THEN TrimRight(SubSeq(s, 1, Len(s) - 1)) ELSE s

\* String.prototype.trim
Trim(s) == TrimRight(TrimLeft(s))

\* String.prototype.includes
Includes(s, q) ==
  \E i \in 0..(Len(s) - Len(q)) : SubSeq(s, i + 1, i + Len(q)) = q

AllDigits(s) == \A i \in 1..Len(s) : IsDigit(s[i])

RECURSIVE DigitsValue(_)
DigitsValue(s) ==
  IF s = <<>> THEN 0 ELSE 10 * DigitsValue(SubSeq(s, 1, Len(s) - 1)) + DigitVal(s[Len(s)])

\* the fraction ".d" or ".dd" in hundredths
FractionValue(f) ==
  IF Len(f) = 0 THEN 0
  ELSE IF Len(f) = 1 THEN 10 * DigitVal(f[1])
  ELSE 10 * DigitVal(f[1]) + DigitVal(f[2])

\* the decimal literal with integer part ip and fraction fp
DecimalValue(ip, fp) ==
  IF AllDigits(ip) /\ AllDigits(fp) /\ Len(ip) + Len(fp) > 0
  THEN Num(100 * DigitsValue(ip) + FractionValue(fp))
  ELSE NaN

\* the unsigned literal u whose "." is at index dot (0: none)
UnsignedAt(u, dot) ==
  IF u = <<"I", "n", "f", "i", "n", "i", "t", "y">> THEN PosInf
  ELSE IF dot = 0 THEN DecimalValue(u, <<>>)
  ELSE DecimalValue(SubSeq(u, 1, dot - 1), SubSeq(u, dot + 1, Len(u)))

\* index of the exponent mark of u (0: none)
ExponentAt(u) == IF IndexOf(u, "e") # 0 THEN IndexOf(u, "e") ELSE IndexOf(u, "E")

RECURSIVE Pow10(_)
Pow10(k) == IF k = 0 THEN 1 ELSE 10 * Pow10(k - 1)

\* val times ten to the power digits (divided when neg), in hundredths
Scaled(val, neg, digits) ==
  IF val.t # "num" \/ digits = <<>> \/ ~AllDigits(digits) THEN NaN
  ELSE IF neg THEN Num(val.n \div Pow10(DigitsValue(digits)))
  ELSE Num(val.n * Pow10(DigitsValue(digits)))

\* val scaled by the exponent part x: digits with an optional sign
WithExponent(val, x) ==
  IF x # <<>> /\ Head(x) = "-" THEN Scaled(val, TRUE, Tail(x))
  ELSE IF x # <<>> /\ Head(x) = "+" THEN Scaled(val, FALSE, Tail(x))
  ELSE Scaled(val, FALSE, x)

\* the unsigned literal u whose exponent mark is at index ex (0: none)
UnsignedExp(u, ex) ==
  IF ex = 0 THEN UnsignedAt(u, IndexOf(u, "."))
  ELSE WithExponent(UnsignedAt(SubSeq(u, 1, ex - 1), IndexOf(SubSeq(u, 1, ex - 1), ".")),
                    SubSeq(u, ex + 1, Len(u)))

\* the unsigned decimal literal u: digits, digits "." digits, "." digits,
\* each with an optional exponent
UnsignedNumber(u) == UnsignedExp(u, ExponentAt(u))

Negated(val) == IF val.t = "num" THEN Num(0 - val.n) ELSE val

\* Number(u) of a trimmed string
TrimmedToNumber(u) ==
  IF u = <<>> THEN Num(0)
  ELSE IF Head(u) = "-" THEN Negated(UnsignedNumber(Tail(u)))
  ELSE IF Head(u) = "+" THEN UnsignedNumber(Tail(u))
  ELSE UnsignedNumber(u)

\* Number(s) of a string: white space is trimmed, "" is 0, a decimal literal
\* is its value, "Infinity" is infinite, anything else ("inf", "nan") is NaN
StringToNumber(s) == TrimmedToNumber(Trim(s))

\* String(x) of a number with at most two decimals
RECURSIVE NatStringOf(_)
NatStringOf(k) ==
  IF k < 10 THEN <<Digits[k + 1]>>
  ELSE Append(NatStringOf(k \div 10), Digits[(k % 10) + 1])

\* the decimals of f hundredths
FractionStringOf(f) ==
  IF f = 0 THEN <<>>
  ELSE IF f % 10 = 0 THEN <<".", Digits[(f \div 10) + 1]>>
  ELSE <<".", Digits[(f \div 10) + 1], Digits[(f % 10) + 1]>>

NumberStringOf(x) ==
  IF x < 0 THEN <<"-">> \o NatStringOf((0 - x) \div 100) \o FractionStringOf((0 - x) % 100)
  ELSE NatStringOf(x \div 100) \o FractionStringOf(x % 100)

\* String(v)
StringOf(v) ==
  CASE v.t = "str" -> v.s
    [] v.t = "num" -> NumberStringOf(v.n)
    [] v.t = "null" -> <<"n", "u", "l", "l">>
    [] v.t = "undef" -> <<"u", "n", "d", "e", "f", "i", "n", "e", "d">>
    [] v.t = "nan" -> <<"N", "a", "N">>
    [] OTHER -> <<"I", "n", "f", "i", "n", "i", "t", "y">>

---------------------------------------------------------------------------
(* Numeric and stats helpers *)

\* Number.isFinite(n) ? n : null
FiniteOrNull(n) == IF n.t = "num" THEN n ELSE Null

\* toNum of the trimmed string s
toNumTrimmed(s) ==
  IF s = <<>> \/ ToLowerCase(s) = <<"n", "a", "n">> THEN Null
  ELSE FiniteOrNull(StringToNumber(s))

toNum(x) ==
  IF IsNullish(x) THEN Null
  ELSE IF x.t \in {"num", "nan", "inf"} THEN FiniteOrNull(x)
  ELSE toNumTrimmed(Trim(StringOf(x)))

normalizeStats(stats) ==
  IF ~Truthy(stats) THEN Null
  ELSE [t |-> "obj",
        trades |-> toNum(Get(stats, "trades")),
        score |-> toNum(Get(stats, "score")),
        meanR |-> toNum(Coalesce(Get(stats, "mean_R"), Get(stats, "meanR"))),
        pf |-> toNum(Coalesce(Get(stats, "pf"), Get(stats, "profit_factor")))]

\* s?.field ?? null
StatField(s, field) == IF IsNullish(s) THEN Null ELSE Coalesce(Get(s, field), Null)

---------------------------------------------------------------------------
(* Quality band *)

MIN_TRADES == 2000

\* BucketOf with each boundary value put in the lower band
BucketOfStrict(s) ==
  IF ~Truthy(s) THEN "na"
  ELSE IF s.trades.t = "num" /\ s.trades.n < MIN_TRADES THEN "na"
  ELSE IF s.score.t = "null" THEN "na"
  ELSE IF s.score.n > 300 THEN "top"
  ELSE IF s.score.n > 150 THEN "green"
  ELSE IF s.score.n > 50 THEN "yellow"
  ELSE "red"

\* the body of rankBucket on s = normalizeStats(row?.stats): the trade gate,
\* then the band of a score >= 3.0 / >= 1.5 / >= 0.5 / below
BucketOf(s) ==
  IF ~Truthy(s) THEN "na"
  ELSE IF s.trades.t = "num" /\ s.trades.n < MIN_TRADES THEN "na"
  ELSE IF s.score.t = "null" THEN "na"
  ELSE IF s.score.n >= 300 THEN "top"
  ELSE IF s.score.n >= 150 THEN "green"
  ELSE IF s.score.n >= 50 THEN "yellow"
  ELSE "red"

rankBucket(row) == BucketOf(normalizeStats(Get(row, "stats")))

ClassOfBucket(b) ==
  CASE b = "top" -> "rank-top"
    [] b = "green" -> "rank-green"
    [] b = "yellow" -> "rank-yellow"
    [] b = "red" -> "rank-red"
    [] OTHER -> "rank-na"

rankClass(row) == ClassOfBucket(rankBucket(row))

\* the score-only band of the gate/sort version of the script
scoreBand(score) ==
  IF score.t = "null" THEN "rank-na"
  ELSE IF score.n < 50 THEN "rank-red"
  ELSE IF score.n < 150 THEN "rank-yellow"
  ELSE IF score.n < 300 THEN "rank-green"
  ELSE "rank-strong"

---------------------------------------------------------------------------
(* Trade gates *)

\* gatePreset falling back to the loosest preset for an unknown name
gatePresetFallback(name) ==
  CASE name = "conservative" ->
         [t |-> "preset", tradesMin |-> 4000, scoreMin |-> 150, pfMin |-> 130, meanRMin |-> 10]
    [] name = "balanced" ->
         [t |-> "preset", tradesMin |-> 2500, scoreMin |-> 100, pfMin |-> 115, meanRMin |-> 5]
    [] name = "off" -> Null
    [] OTHER ->
         [t |-> "preset", tradesMin |-> 2000, scoreMin |-> 50, pfMin |-> 100, meanRMin |-> 0]

\* presets whose balanced profit factor minimum is below the aggressive one
gatePresetUnordered(name) ==
  CASE name = "conservative" ->
         [t |-> "preset", tradesMin |-> 4000, scoreMin |-> 150, pfMin |-> 130, meanRMin |-> 10]
    [] name = "balanced" ->
         [t |-> "preset", tradesMin |-> 2500, scoreMin |-> 100, pfMin |-> 99, meanRMin |-> 5]
    [] name = "aggressive" ->
         [t |-> "preset", tradesMin |-> 2000, scoreMin |-> 50, pfMin |-> 100, meanRMin |-> 0]
    [] OTHER -> Null

gatePreset(name) ==
  CASE name = "conservative" ->
         [t |-> "preset", tradesMin |-> 4000, scoreMin |-> 150, pfMin |-> 130, meanRMin |-> 10]
    [] name = "balanced" ->
         [t |-> "preset", tradesMin |-> 2500, scoreMin |-> 100, pfMin |-> 115, meanRMin |-> 5]
    [] name = "aggressive" ->
         [t |-> "preset", tradesMin |-> 2000, scoreMin |-> 50, pfMin |-> 100, meanRMin |-> 0]
    [] OTHER -> Null

\* GateReason rejecting a value equal to the minimum
GateReasonLe(label, val, min) ==
  IF val.t = "null" THEN <<[metric |-> label, kind |-> "no", min |-> 0]>>
  ELSE IF val.n <= min THEN <<[metric |-> label, kind |-> "lt", min |-> min]>>
  ELSE <<>>

\* one metric's contribution to the reasons list
GateReason(label, val, min) ==
  IF val.t = "null" THEN <<[metric |-> label, kind |-> "no", min |-> 0]>>
  ELSE IF val.n < min THEN <<[metric |-> label, kind |-> "lt", min |-> min]>>
  ELSE <<>>

\* GateReasons checking the score before the trades
GateReasonsScoreFirst(s, preset) ==
  GateReason("score", StatField(s, "score"), preset.scoreMin)
  \o GateReason("trades", StatField(s, "trades"), preset.tradesMin)
  \o GateReason("PF", StatField(s, "pf"), preset.pfMin)
  \o GateReason("meanR", StatField(s, "meanR"), preset.meanRMin)

\* the four checks of evalGate on s = normalizeStats(row.stats), in order
GateReasons(s, preset) ==
  GateReason("trades", StatField(s, "trades"), preset.tradesMin)
  \o GateReason("score", StatField(s, "score"), preset.scoreMin)
  \o GateReason("PF", StatField(s, "pf"), preset.pfMin)
  \o GateReason("meanR", StatField(s, "meanR"), preset.meanRMin)

\* { pass: reasons.length === 0, reasons }
GateResult(reasons) == [pass |-> Len(reasons) = 0, reasons |-> reasons]

evalGate(row, preset) ==
  IF ~Truthy(preset) THEN [pass |-> TRUE, reasons |-> <<>>]
  ELSE GateResult(GateReasons(normalizeStats(Get(row, "stats")), preset))

\* render: gateSelect ? gatePreset(gateSelect.value) : null
NoElement == "<no element>"
PresetOf(sel) == IF sel = NoElement THEN Null ELSE gatePreset(sel)

---------------------------------------------------------------------------
(* The state of the page before main() has run, and the idle harness *)

Views == {"active", "edge", "trade_plan", "position_plan"}

NoCall == [op |-> "none"]

\* textContent of #meta: which message, and the strategy it names
MetaText(k, s) == [k |-> k, strategy |-> s]

\* #links without children
NoLinks == [k |-> "none", strategy |-> 0, load |-> 0]

\* textContent of #tableTitle: the option's text and cfg.title
TitleText(k, s, view) == [k |-> k, strategy |-> s, view |-> view]

\* textContent of #hint: "Anzahl: shown (von total)"
HintText(k, shown, total) == [k |-> k, shown |-> shown, total |-> total]

PageIdle ==
  /\ strategySelect = 0
  /\ viewSelect = "active"
  /\ gateSelect = "off"
  /\ gateOnly = FALSE
  /\ search = <<>>
  /\ latest = Null
  /\ archive = Null
  /\ sortByView = [v \in Views |-> Null]
  /\ metaEl = MetaText("empty", 0)
  /\ linksEl = NoLinks
  /\ thead = Null
  /\ tbody = <<>>
  /\ titleEl = TitleText("empty", 0, "")
  /\ hintEl = HintText("empty", 0, 0)
  /\ loads = <<>>
  /\ events = 0

---------------------------------------------------------------------------
(* Quality band: rankBucket applied to bounded rows *)

StatsObj(tr, sc, mr, pf) ==
  [t |-> "obj", trades |-> tr, score |-> sc, mean_R |-> mr, pf |-> pf]

BandTrades ==
  {Undef, Null, Num(500), Num(1900), Num(2000), Num(2100), Str(<<"5">>), Str(<<"3", "0">>)}
BandScores ==
  {Null, Num(-100), Num(49), Num(50), Num(149), Num(150), Num(299), Num(300),
   Num(1000), Str(<<"2", ".", "1">>), Str(<<"n", "a", "n">>)}

BandRows ==
  {[symbol |-> Str(<<"A">>)], [symbol |-> Str(<<"A">>), stats |-> Null]}
  \cup {[symbol |-> Str(<<"A">>), stats |-> StatsObj(tr, sc, Null, Null)] :
          tr \in BandTrades, sc \in BandScores}

InitBand ==
  /\ PageIdle
  /\ call \in {[op |-> "rankBucket", row |-> r] : r \in BandRows}
  /\ result = NoCall

RankBucketCall ==
  /\ call.op = "rankBucket" /\ result = NoCall
  /\ result' = [op |-> "rankBucket", v |-> rankBucket(call.row), cls |-> rankClass(call.row)]
  /\ UNCHANGED << uiVars, call >>

NextBand == RankBucketCall

SpecBand == InitBand /\ [][NextBand]_vars

\* the band as the specification states it, over the normalized stats
SpecifiedBand(s) ==
  IF s.t = "null" THEN "NA"
  ELSE IF s.score.t = "null" THEN "NA"
  ELSE IF s.trades.t = "num" /\ s.trades.n < 2000 THEN "NA"
  ELSE IF s.score.n < 50 THEN "RED"
  ELSE IF s.score.n < 150 THEN "YELLOW"
  ELSE IF s.score.n < 300 THEN "GREEN"
  ELSE "STRONG"

BandName(b) ==
  CASE b = "na" -> "NA" [] b = "red" -> "RED" [] b = "yellow" -> "YELLOW"
    [] b = "green" -> "GREEN" [] b = "top" -> "STRONG"

---------------------------------------------------------------------------
(* Trade gates: evalGate applied to bounded rows and preset names *)

GateTrades == {Null, Num(1900), Num(2000), Num(2400), Num(2500), Num(3900), Num(4000)}
GateScores == {Null, Num(49), Num(50), Num(99), Num(100), Num(149), Num(150)}
GatePfs == {Null, Num(99), Num(100), Num(115), Num(130), Str(<<"i", "n", "f">>)}
GateMeanRs == {Null, Num(-1), Num(0), Num(5), Num(10)}

GateRows ==
  {[symbol |-> Str(<<"A">>)], [symbol |-> Str(<<"A">>), stats |-> Null]}
  \cup {[symbol |-> Str(<<"A">>), stats |-> StatsObj(tr, sc, mr, pf)] :
          tr \in GateTrades, sc \in GateScores, mr \in GateMeanRs, pf \in GatePfs}

DefinedPresets == {"conservative", "balanced", "aggressive"}
GateValues == DefinedPresets \cup {"off", "", "Conservative", "strict", NoElement}

InitGate ==
  /\ PageIdle
  /\ call \in {[op |-> "evalGate", row |-> r, sel |-> g] : r \in GateRows, g \in GateValues}
  /\ result = NoCall

EvalGateCall ==
  /\ call.op = "evalGate" /\ result = NoCall
  /\ result' = [op |-> "evalGate", v |-> evalGate(call.row, PresetOf(call.sel))]
  /\ UNCHANGED << uiVars, call >>

NextGate == EvalGateCall

SpecGate == InitGate /\ [][NextGate]_vars

\* C5: with "off", no preset control, or a name that is no defined preset,
\* every record passes with an empty reasons list, whatever its stats.
C5_FailOpen ==
  (result.op = "evalGate" /\ call.sel \notin DefinedPresets) =>
    result.v = [pass |-> TRUE, reasons |-> <<>>]

C5_Witness ==
  /\ result.op = "evalGate"
  /\ call.sel = "strict"
  /\ "stats" \notin DOMAIN call.row
  /\ result.v.pass

GateMetrics == <<"trades", "score", "PF", "meanR">>

MetricValue(s, m) ==
  CASE m = "trades" -> StatField(s, "trades")
    [] m = "score" -> StatField(s, "score")
    [] m = "PF" -> StatField(s, "pf")
    [] m = "meanR" -> StatField(s, "meanR")

MetricMin(p, m) ==
  CASE m = "trades" -> p.tradesMin
    [] m = "score" -> p.scoreMin
    [] m = "PF" -> p.pfMin
    [] m = "meanR" -> p.meanRMin

ReasonsAbout(reasons, m) == {i \in 1..Len(reasons) : reasons[i].metric = m}

\* C6: for a defined preset, pass iff the reasons list is empty iff all four
\* metrics are present and >= their minimum; each metric gives at most one
\* reason ("no" when missing, "<" with the threshold when below); a record
\* without stats fails with exactly four reasons.
C6_PassIffNoReasons ==
  (result.op = "evalGate" /\ call.sel \in DefinedPresets) =>
    LET p == gatePreset(call.sel)
        s == normalizeStats(Get(call.row, "stats"))
        rs == result.v.reasons
        Ok(m) == MetricValue(s, m).t = "num" /\ MetricValue(s, m).n >= MetricMin(p, m)
    IN /\ result.v.pass <=> (rs = <<>>)
       /\ (rs = <<>>) <=> \A i \in 1..4 : Ok(GateMetrics[i])
       /\ \A i \in 1..4 :
            LET m == GateMetrics[i]
                about == ReasonsAbout(rs, m)
            IN /\ Cardinality(about) = (IF Ok(m) THEN 0 ELSE 1)
               /\ \A k \in about :
                    IF MetricValue(s, m).t = "null"
                    THEN rs[k].kind = "no"
                    ELSE rs[k].kind = "lt" /\ rs[k].min = MetricMin(p, m)
       /\ \A k \in 1..Len(rs) : \E i \in 1..4 : rs[k].metric = GateMetrics[i]
       /\ (s.t = "null") => (Len(rs) = 4 /\ ~result.v.pass)

C6_Witness ==
  /\ result.op = "evalGate"
  /\ call.sel = "balanced"
  /\ "stats" \in DOMAIN call.row
  /\ call.row.stats = StatsObj(Num(2500), Num(100), Num(5), Num(115))
  /\ result.v.pass

C6_WitnessNoStats ==
  /\ result.op = "evalGate"
  /\ call.sel = "conservative"
  /\ "stats" \notin DOMAIN call.row
  /\ Len(result.v.reasons) = 4

MetricIndex(m) == IndexOf(GateMetrics, m)

\* C7: the reasons are ordered by the fixed metric order trades, score, pf,
\* meanR: of any two reasons, the one about the earlier metric comes first.
C7_ReasonOrder ==
  result.op = "evalGate" =>
    \A i, j \in 1..Len(result.v.reasons) :
      i < j => MetricIndex(result.v.reasons[i].metric) < MetricIndex(result.v.reasons[j].metric)

C7_Witness ==
  /\ result.op = "evalGate"
  /\ call.sel = "conservative"
  /\ "stats" \in DOMAIN call.row
  /\ call.row.stats = StatsObj(Num(2500), Num(100), Num(10), Num(130))
  /\ result.v.reasons = << [metric |-> "trades", kind |-> "lt", min |-> 4000],
                           [metric |-> "score", kind |-> "lt", min |-> 150] >>

---------------------------------------------------------------------------
(* View configuration and sorting *)

\* the en dash the renderers show for a missing value, as one character
Dash == <<"DASH">>

\* localeCompare of the lower-cased strings the sorter compares: white space
\* and punctuation before digits before letters, a proper prefix first
CollationOrder == <<" ", "_", "-", "DASH", ".">> \o Digits \o Lowers \o Uppers

CharRank(c) == IndexOf(CollationOrder, c)

RECURSIVE localeCompare(_, _)
localeCompare(a, b) ==
  IF a = <<>> /\ b = <<>> THEN 0
  ELSE IF a = <<>> THEN -1
  ELSE IF b = <<>> THEN 1
  ELSE IF CharRank(Head(a)) < CharRank(Head(b)) THEN -1
  ELSE IF CharRank(Head(a)) > CharRank(Head(b)) THEN 1
  ELSE localeCompare(Tail(a), Tail(b))

\* a computeRR that answers 0 when buy equals sl
RRofZeroRisk(rr, buy, sl, tp) ==
  IF rr.t # "null" THEN rr
  ELSE IF buy.t = "null" \/ sl.t = "null" \/ tp.t = "null" THEN Null
  ELSE IF buy.n - sl.n < 0 THEN Null
  ELSE IF buy.n - sl.n = 0 THEN Num(0)
  ELSE Num((100 * (tp.n - buy.n)) \div (buy.n - sl.n))

\* the body of computeRR on the four converted cells
RRof(rr, buy, sl, tp) ==
  IF rr.t # "null" THEN rr
  ELSE IF buy.t = "null" \/ sl.t = "null" \/ tp.t = "null" THEN Null
  ELSE IF buy.n - sl.n <= 0 THEN Null
  ELSE Num((100 * (tp.n - buy.n)) \div (buy.n - sl.n))

computeRR(row) ==
  RRof(toNum(Get(row, "rr")), toNum(Get(row, "buy")), toNum(Get(row, "sl")),
       toNum(Get(row, "tp")))

buildEventsCell(overlay) ==
  IF ~Truthy(overlay) THEN Str(Dash) ELSE Str(<<"e", "v", "e", "n", "t", "s">>)

\* cfg.cols[*].key of buildViewConfig(view)
ViewCols(view) ==
  CASE view = "trade_plan" ->
         <<"universe", "symbol", "mode", "buy", "sl", "tp", "rr", "hold",
           "trades", "score", "meanR", "pf">>
    [] view = "position_plan" ->
         <<"universe", "symbol", "mode", "buy", "sl", "tp", "shares", "cost_usd",
           "risk_usd", "fee_usd", "cash_after_usd", "trades", "score", "meanR", "pf">>
    [] OTHER ->
         <<"universe", "symbol", "buy", "sl", "tp", "rr", "hold", "shares",
           "risk_usd", "fee_usd", "trades", "score", "meanR", "pf", "events">>

\* the keys of cfg.renderers of buildViewConfig(view)
HasRenderer(view, key) ==
  \/ key \in {"universe", "symbol", "buy", "sl", "tp", "trades", "score", "meanR", "pf"}
  \/ view = "trade_plan" /\ key \in {"mode", "rr", "hold"}
  \/ view = "position_plan"
       /\ key \in {"mode", "shares", "cost_usd", "risk_usd", "fee_usd", "cash_after_usd"}
  \/ view \notin {"trade_plan", "position_plan"}
       /\ key \in {"rr", "hold", "shares", "risk_usd", "fee_usd", "events"}

\* cfg.renderers[key](row)
Renderer(key, row) ==
  CASE key \in {"universe", "symbol", "mode"} -> Coalesce(Get(row, key), Str(Dash))
    [] key = "rr" -> computeRR(row)
    [] key = "hold" ->
         toNum(Coalesce(Coalesce(Get(row, "time_stop_bars"), Get(row, "hold_bars")),
                        Get(row, "hold")))
    [] key \in {"trades", "score", "meanR", "pf"} ->
         StatField(normalizeStats(Get(row, "stats")), key)
    [] key = "events" -> buildEventsCell(Get(row, "overlay"))
    [] OTHER -> toNum(Get(row, key))

\* a default sort that starts with the lowest score
DefaultSortAsc(view) == [key |-> "score", dir |-> "asc"]

\* cfg.defaultSort and cfg.tieBreak, the same in every view
DefaultSort(view) == [key |-> "score", dir |-> "desc"]
TieBreakOf(view) == <<[key |-> "trades", dir |-> "desc"]>>

\* the value a column sorts by: the renderer's, or the row's own property
RawValue(row, key, view) ==
  IF HasRenderer(view, key) THEN Renderer(key, row) ELSE Get(row, key)

\* { t: "num", v: n } when toNum(raw) is a number, else { t: "str", ... }
NumOrStr(raw, n) ==
  IF n.t # "null" THEN [t |-> "num", n |-> n.n, s |-> <<>>]
  ELSE [t |-> "str", n |-> 0, s |-> ToLowerCase(StringOf(raw))]

SortValue(raw) ==
  IF IsNullish(raw) \/ raw = Str(<<>>) \/ raw = Str(Dash) THEN [t |-> "na", n |-> 0, s |-> <<>>]
  ELSE NumOrStr(raw, toNum(raw))

valueForSort(row, key, view) == SortValue(RawValue(row, key, view))

\* String(v.v) of a sort value
SortValueString(v) == IF v.t = "num" THEN NumberStringOf(v.n) ELSE v.s

Mul(dir) == IF dir = "asc" THEN 1 ELSE -1

\* va.v - vb.v for two numbers, localeCompare otherwise
ValueCmp(va, vb) ==
  IF va.t = "num" /\ vb.t = "num" THEN va.n - vb.n
  ELSE localeCompare(SortValueString(va), SortValueString(vb))

\* one pass of the tie-break loop; rest is what the later entries decide
TieBreakStep(ta, tbv, dir, c2, rest) ==
  IF ta.t = "na" /\ tbv.t = "na" THEN rest
  ELSE IF ta.t = "na" THEN 1
  ELSE IF tbv.t = "na" THEN -1
  ELSE IF c2 # 0 THEN c2 * Mul(dir)
  ELSE rest

TieBreakValues(ta, tbv, dir, rest) == TieBreakStep(ta, tbv, dir, ValueCmp(ta, tbv), rest)

\* the tie-break loop of the comparator, from entry k of the chain on
RECURSIVE TieBreakCompare(_, _, _, _, _)
TieBreakCompare(a, b, view, tieBreak, k) ==
  IF k > Len(tieBreak) THEN 0
  ELSE TieBreakValues(valueForSort(a, tieBreak[k].key, view),
                      valueForSort(b, tieBreak[k].key, view),
                      tieBreak[k].dir,
                      TieBreakCompare(a, b, view, tieBreak, k + 1))

\* PrimaryStep with NA moved by the direction like any other value
PrimaryStepNaByDir(va, vb, dir, cmp, tie) ==
  IF va.t = "na" /\ vb.t = "na" THEN 0
  ELSE IF va.t = "na" THEN Mul(dir)
  ELSE IF vb.t = "na" THEN 0 - Mul(dir)
  ELSE IF va.t # vb.t THEN (IF va.t = "num" THEN -1 ELSE 1)
  ELSE IF cmp # 0 THEN cmp * Mul(dir)
  ELSE tie

\* the comparator on the two primary values; tie is what the tie-breaks decide
PrimaryStep(va, vb, dir, cmp, tie) ==
  IF va.t = "na" /\ vb.t = "na" THEN 0
  ELSE IF va.t = "na" THEN 1
  ELSE IF vb.t = "na" THEN -1
  ELSE IF va.t # vb.t THEN (IF va.t = "num" THEN -1 ELSE 1)
  ELSE IF cmp # 0 THEN cmp * Mul(dir)
  ELSE tie

PrimaryValues(va, vb, dir, tie) == PrimaryStep(va, vb, dir, ValueCmp(va, vb), tie)

\* the comparator of sortRows consulting the last tie-break only
CompareRowsLastTieBreak(a, b, sortState, view, tieBreak) ==
  PrimaryValues(valueForSort(a, sortState.key, view), valueForSort(b, sortState.key, view),
                sortState.dir, TieBreakCompare(a, b, view, tieBreak, IF tieBreak = <<>> THEN 1 ELSE Len(tieBreak)))

\* the comparator passed to out.sort in sortRows
CompareRows(a, b, sortState, view, tieBreak) ==
  PrimaryValues(valueForSort(a, sortState.key, view), valueForSort(b, sortState.key, view),
                sortState.dir, TieBreakCompare(a, b, view, tieBreak, 1))

\* an unstable sort: where x lands among equal elements depends on how many
\* elements are sorted already
RECURSIVE InsertSortedByLength(_, _, _, _, _)
InsertSortedByLength(out, x, sortState, view, tieBreak) ==
  IF out = <<>> THEN <<x>>
  ELSE IF CompareRows(out[Len(out)], x, sortState, view, tieBreak) < 0
          \/ (CompareRows(out[Len(out)], x, sortState, view, tieBreak) = 0 /\ Len(out) % 2 = 0)
       THEN Append(out, x)
       ELSE Append(InsertSortedByLength(SubSeq(out, 1, Len(out) - 1), x, sortState, view,
                                        tieBreak),
                   out[Len(out)])

\* Array.prototype.sort is stable: x goes behind the last element that does
\* not sort after it
RECURSIVE InsertSorted(_, _, _, _, _)
InsertSorted(out, x, sortState, view, tieBreak) ==
  IF out = <<>> THEN <<x>>
  ELSE IF CompareRows(out[Len(out)], x, sortState, view, tieBreak) <= 0 THEN Append(out, x)
  ELSE Append(InsertSorted(SubSeq(out, 1, Len(out) - 1), x, sortState, view, tieBreak),
              out[Len(out)])

RECURSIVE StableSort(_, _, _, _)
StableSort(rows, sortState, view, tieBreak) ==
  IF rows = <<>> THEN <<>>
  ELSE InsertSorted(StableSort(SubSeq(rows, 1, Len(rows) - 1), sortState, view, tieBreak),
                    rows[Len(rows)], sortState, view, tieBreak)

\* sortState?.key
HasSortKey(sortState) == sortState # Null

sortRows(rows, sortState, view, tieBreak) ==
  IF ~HasSortKey(sortState) THEN rows ELSE StableSort(rows, sortState, view, tieBreak)

---------------------------------------------------------------------------
(* Sorting: sortRows applied to bounded row lists *)

MaxSortLen == 3

SortRow(sym, uni, sc, tr) ==
  [symbol |-> Str(sym), universe |-> Str(uni), stats |-> StatsObj(tr, sc, Null, Null)]

RowA == SortRow(<<"a">>, <<"d", "a", "x">>, Num(100), Num(3000))
RowB == SortRow(<<"b">>, <<"d", "a", "x">>, Num(100), Num(5000))
RowC == SortRow(<<"c">>, <<"s", "p">>, Null, Num(3000))
RowD == SortRow(<<"d">>, <<"s", "p">>, Null, Num(5000))
RowE == [symbol |-> Str(<<"e">>)]
RowF == SortRow(<<"F">>, <<"S", "P">>, Num(200), Null)
RowG == SortRow(<<"g">>, <<"d", "a", "x">>, Num(100), Num(3000))

SortPool == {RowA, RowB, RowC, RowD, RowE, RowF, RowG}

\* the lists of at most n distinct rows of the pool
RECURSIVE RowLists(_)
RowLists(n) ==
  IF n = 0 THEN {<<>>}
  ELSE LET shorter == RowLists(n - 1)
       IN shorter \cup
          {Append(l, r) : l \in {x \in shorter : Len(x) = n - 1}, r \in SortPool}

DistinctRows(l) == \A i, j \in 1..Len(l) : i # j => l[i] # l[j]

SortStates ==
  {Null} \cup [key : {"score", "trades", "universe"}, dir : {"asc", "desc"}]

TieBreaks ==
  { <<>>,
    <<[key |-> "trades", dir |-> "desc"]>>,
    <<[key |-> "trades", dir |-> "asc"]>>,
    <<[key |-> "trades", dir |-> "desc"], [key |-> "symbol", dir |-> "desc"]>> }

InitSort ==
  /\ PageIdle
  /\ call \in {[op |-> "sortRows", rows |-> l, sortState |-> st, tieBreak |-> tb] :
                 l \in {x \in RowLists(MaxSortLen) : DistinctRows(x)},
                 st \in SortStates, tb \in TieBreaks}
  /\ result = NoCall

SortRowsCall ==
  /\ call.op = "sortRows" /\ result = NoCall
  /\ result' = [op |-> "sortRows",
                v |-> sortRows(call.rows, call.sortState, "active", call.tieBreak)]
  /\ UNCHANGED << uiVars, call >>

NextSort == SortRowsCall

SpecSort == InitSort /\ [][NextSort]_vars

\* the cell a column shows for a row, before any conversion
ColumnValue(row, key) == RawValue(row, key, "active")

\* missing, empty or the NA sentinel
IsNA(row, key) ==
  LET raw == ColumnValue(row, key)
  IN raw.t \in {"null", "undef"} \/ (raw.t = "str" /\ raw.s \in {<<>>, Dash})

PositionIn(l, r) == CHOOSE i \in 1..Len(l) : l[i] = r

IsPermutation(out, in) ==
  /\ Len(out) = Len(in)
  /\ \A i \in 1..Len(in) : \E j \in 1..Len(out) : out[j] = in[i]

ScoresOf(l) == [i \in 1..Len(l) |-> ColumnValue(l[i], "score")]

\* C9: in the output of sortRows every record whose primary-key value is
\* missing, empty or the NA sentinel comes after every record whose value is
\* present, for asc and for desc; scores [null, 1.0, 2.0] give
\* [2.0, 1.0, null] descending and [1.0, 2.0, null] ascending.
C9_NaLast ==
  (result.op = "sortRows" /\ HasSortKey(call.sortState)) =>
    LET out == result.v
        key == call.sortState.key
    IN /\ IsPermutation(out, call.rows)
       /\ \A i, j \in 1..Len(out) :
            (IsNA(out[i], key) /\ ~IsNA(out[j], key)) => j < i
       /\ (key = "score" /\ ScoresOf(call.rows) = <<Null, Num(100), Num(200)>>) =>
            ScoresOf(out) = (IF call.sortState.dir = "desc"
                             THEN <<Num(200), Num(100), Null>>
                             ELSE <<Num(100), Num(200), Null>>)

C9_Witness ==
  /\ result.op = "sortRows"
  /\ call.sortState = [key |-> "score", dir |-> "desc"]
  /\ call.rows = <<RowC, RowA, RowF>>
  /\ result.v = <<RowF, RowA, RowC>>

\* the comparison value of a present cell: a number, or the lower-cased text
KeyIsNumber(row, key) == toNum(ColumnValue(row, key)).t = "num"

KeyOrder(a, b, key) ==
  IF KeyIsNumber(a, key) /\ KeyIsNumber(b, key)
  THEN toNum(ColumnValue(a, key)).n - toNum(ColumnValue(b, key)).n
  ELSE localeCompare(
         IF KeyIsNumber(a, key) THEN NumberStringOf(toNum(ColumnValue(a, key)).n)
         ELSE ToLowerCase(StringOf(ColumnValue(a, key))),
         IF KeyIsNumber(b, key) THEN NumberStringOf(toNum(ColumnValue(b, key)).n)
         ELSE ToLowerCase(StringOf(ColumnValue(b, key))))

\* both primary values present, of one kind, and equal
PrimaryEqual(a, b, key) ==
  /\ ~IsNA(a, key) /\ ~IsNA(b, key)
  /\ KeyIsNumber(a, key) = KeyIsNumber(b, key)
  /\ KeyOrder(a, b, key) = 0

BothNA(a, b, key) == IsNA(a, key) /\ IsNA(b, key)

\* tie-break tb tells a and b apart
Distinguishes(tb, a, b) ==
  /\ ~BothNA(a, b, tb.key)
  /\ IsNA(a, tb.key) \/ IsNA(b, tb.key) \/ KeyOrder(a, b, tb.key) # 0

\* tie-break tb puts a before b: NA last, otherwise by its own direction
PutsBefore(tb, a, b) ==
  IF IsNA(b, tb.key) THEN ~IsNA(a, tb.key)
  ELSE /\ ~IsNA(a, tb.key)
       /\ IF tb.dir = "asc" THEN KeyOrder(a, b, tb.key) < 0 ELSE KeyOrder(a, b, tb.key) > 0

\* a before b is what the tie-break chain and stability ask for
ChainOrder(a, b, chain, input) ==
  IF \E k \in 1..Len(chain) : Distinguishes(chain[k], a, b)
  THEN LET k == CHOOSE k \in 1..Len(chain) :
                  /\ Distinguishes(chain[k], a, b)
                  /\ \A m \in 1..(k - 1) : ~Distinguishes(chain[m], a, b)
       IN PutsBefore(chain[k], a, b)
  ELSE PositionIn(input, a) < PositionIn(input, b)

\* C10 as stated: every two records whose primary-key values tie, two NA
\* values included, are ordered by the first tie-break that distinguishes
\* them, and keep their input order when none does.
C10_TieBreakOnEveryTie ==
  (result.op = "sortRows" /\ HasSortKey(call.sortState)) =>
    \A i, j \in 1..Len(result.v) :
      (i < j /\ (\/ PrimaryEqual(result.v[i], result.v[j], call.sortState.key)
                 \/ BothNA(result.v[i], result.v[j], call.sortState.key))) =>
        ChainOrder(result.v[i], result.v[j], call.tieBreak, call.rows)

\* C10: two records with equal present primary-key values are ordered by the
\* first tie-break that distinguishes them (own direction, NA last) and keep
\* their input order when none does; two records whose primary-key values
\* are both NA keep their input order, the tie-breaks not being consulted.
C10_StableTieBreak ==
  (result.op = "sortRows" /\ HasSortKey(call.sortState)) =>
    \A i, j \in 1..Len(result.v) :
      i < j =>
        /\ PrimaryEqual(result.v[i], result.v[j], call.sortState.key) =>
             ChainOrder(result.v[i], result.v[j], call.tieBreak, call.rows)
        /\ BothNA(result.v[i], result.v[j], call.sortState.key) =>
             PositionIn(call.rows, result.v[i]) < PositionIn(call.rows, result.v[j])

C10_Witness ==
  /\ result.op = "sortRows"
  /\ call.sortState = [key |-> "score", dir |-> "desc"]
  /\ call.tieBreak = <<[key |-> "trades", dir |-> "desc"], [key |-> "symbol", dir |-> "desc"]>>
  /\ call.rows = <<RowA, RowB, RowG>>
  /\ result.v = <<RowB, RowG, RowA>>

---------------------------------------------------------------------------
(* The page: the files it fetches *)

\* manifest.strategies, by position: every entry has a path
Strategies == {1, 2}

PageRow(sym, uni, st) == [symbol |-> Str(sym), universe |-> Str(uni), stats |-> st]

\* rows of the archive of strategy 1
RowAB == PageRow(<<"A", "B">>, <<"d", "a", "x">>, StatsObj(Num(500), Num(1000), Num(50), Num(200)))
RowCD == PageRow(<<"C", "D">>, <<"s", "p">>, StatsObj(Num(5000), Num(200), Num(20), Num(150)))
RowEA == [symbol |-> Str(<<"E", "A">>), universe |-> Str(<<"s", "p">>)]
RowFB == PageRow(<<"F", "B">>, <<"s", "p">>, StatsObj(Num(6000), Num(200), Num(20), Num(150)))
RowCDPlan ==
  [symbol |-> Str(<<"C", "D">>), universe |-> Str(<<"s", "p">>), mode |-> Str(<<"l">>),
   shares |-> Str(<<"1", "0">>),
   stats |-> StatsObj(Num(5000), Num(200), Num(20), Num(150))]

\* rows of the archive of strategy 2
RowGA == PageRow(<<"G", "A">>, <<"d", "a", "x">>, StatsObj(Num(2500), Num(100), Num(5), Num(115)))
RowHB == PageRow(<<"H", "B">>, <<"s", "p">>, StatsObj(Num(3000), Null, Num(5), Num(115)))
RowGATrade ==
  [symbol |-> Str(<<"G", "A">>), universe |-> Str(<<"d", "a", "x">>), mode |-> Str(<<"l">>),
   buy |-> Num(1000), sl |-> Num(900), tp |-> Num(1300),
   stats |-> StatsObj(Num(2500), Num(100), Num(5), Num(115))]

\* archive.data of the archive file of strategy s;
\* the files list their rows in no particular order
ArchiveData(s) ==
  IF s = 1
  THEN [candidates_active |-> <<RowCD, RowEA, RowAB>>,
        candidates_edge |-> <<RowCD, RowFB>>,
        position_plan |-> <<RowCDPlan>>]
  ELSE [candidates_active |-> <<RowHB, RowGA>>,
        candidates_edge |-> <<>>,
        trade_plan |-> <<RowGATrade>>]

\* the object loadJSON(latestPath) resolves to in load i of strategy s
LatestObject(s, i, hasArchivePath) ==
  [t |-> "obj", strategy |-> s, load |-> i, hasArchivePath |-> hasArchivePath]

\* the object loadJSON(archivePath) resolves to in load i of strategy s
ArchiveObject(s, i) ==
  [t |-> "obj", strategy |-> s, load |-> i, data |-> ArchiveData(s)]

\* every row some view of the archive of strategy s holds
RowsOfStrategy(s) ==
  UNION {{ArchiveData(s)[k][j] : j \in 1..Len(ArchiveData(s)[k])} : k \in DOMAIN ArchiveData(s)}

---------------------------------------------------------------------------
(* The page: render and what it calls *)

\* data[key] || []
RowsAt(data, key) == IF key \in DOMAIN data THEN data[key] ELSE <<>>

\* archive?.data || {}
DataOf(arch) ==
  IF IsNullish(arch) \/ "data" \notin DOMAIN arch THEN [k \in {} |-> <<>>] ELSE arch.data

pickRowsFromArchive(arch, view) ==
  CASE view = "active" -> RowsAt(DataOf(arch), "candidates_active")
    [] view = "edge" -> RowsAt(DataOf(arch), "candidates_edge")
    [] view = "trade_plan" -> RowsAt(DataOf(arch), "trade_plan")
    [] view = "position_plan" -> RowsAt(DataOf(arch), "position_plan")
    [] OTHER -> <<>>

\* String(v || "").toLowerCase()
LowerText(v) == IF Truthy(v) THEN ToLowerCase(StringOf(v)) ELSE <<>>

\* MatchesText that looks at the symbol only
MatchesTextSymbolOnly(r, s) == Includes(LowerText(Get(r, "symbol")), s)

\* the predicate applyTextFilter filters by, s being q.toLowerCase()
MatchesText(r, s) ==
  \/ Includes(LowerText(Get(r, "symbol")), s)
  \/ Includes(LowerText(Get(r, "universe")), s)

applyTextFilter(rows, q) ==
  IF ~Truthy(q) THEN rows ELSE SelectSeq(rows, LAMBDA r : MatchesText(r, ToLowerCase(q.s)))

\* latest?.paths: the links exist when the descriptor does
buildLinks(lat) ==
  IF IsNullish(lat) THEN NoLinks
  ELSE [k |-> "links", strategy |-> lat.strategy, load |-> lat.load]

\* the <tr> of renderRow: the gate-fail class and the class of the rank dot
renderRow(row, gateInfo) ==
  [row |-> row,
   gateFail |-> ~gateInfo.pass,
   dot |-> scoreBand(StatField(normalizeStats(Get(row, "stats")), "score"))]

\* an initialisation that keeps a sort state for the shown view only
SortInitSingle(sbv, view) ==
  [v \in DOMAIN sbv |->
     IF v # view THEN Null ELSE IF sbv[v] = Null THEN DefaultSort(v) ELSE sbv[v]]

\* if (!sortByView[view]) sortByView[view] = cfg.defaultSort
SortInit(sbv, view) ==
  IF sbv[view] = Null THEN [sbv EXCEPT ![view] = DefaultSort(view)] ELSE sbv

\* render step 2: evaluated.filter(x => x.gate.pass) when gateOnly is checked
GateFiltered(rows, preset, onlyPass) ==
  IF onlyPass THEN SelectSeq(rows, LAMBDA r : evalGate(r, preset).pass) ELSE rows

\* render steps 1 to 4: the rows the table shows, in order
SortedRows(arch, view, gate, onlyPass, q, sortState) ==
  sortRows(applyTextFilter(GateFiltered(pickRowsFromArchive(arch, view), PresetOf(gate),
                                        onlyPass), Str(q)),
           sortState, view, TieBreakOf(view))

\* the end of render: hint, header and body from the sorted rows
Paint(sorted, total, view, sortState, preset) ==
  /\ hintEl' = HintText("count", Len(sorted), total)
  /\ thead' = [view |-> view, sort |-> sortState]
  /\ tbody' = [i \in 1..Len(sorted) |-> renderRow(sorted[i], evalGate(sorted[i], preset))]

\* render() with the sort states sbv already initialised for the view
RenderSorted(arch, view, sel, gate, onlyPass, q, sbv) ==
  /\ sortByView' = sbv
  /\ titleEl' = TitleText("title", sel, view)
  /\ Paint(SortedRows(arch, view, gate, onlyPass, q, sbv[view]),
           Len(pickRowsFromArchive(arch, view)), view, sbv[view], PresetOf(gate))

\* render(): nothing without an archive
render(arch, view, sel, gate, onlyPass, q, sbv) ==
  IF ~Truthy(arch)
  THEN /\ sortByView' = sbv
       /\ UNCHANGED << titleEl, hintEl, thead, tbody >>
  ELSE RenderSorted(arch, view, sel, gate, onlyPass, q, SortInit(sbv, view))

---------------------------------------------------------------------------
(* The page: main(), loadStrategy and the event handlers *)

MaxLoads == 2
MaxEvents == 3

GateOptions == {"off"} \cup DefinedPresets
Queries == {<<>>, <<"A">>}
ClickKeys == {"score", "symbol"}

\* the handlers are registered once main() has called loadStrategy
Listening == loads # <<>>

\* a loadStrategy that leaves the table and the archive as they are
StartLoadKeepingTable(s) ==
  /\ metaEl' = MetaText("loading", s)
  /\ linksEl' = NoLinks
  /\ titleEl' = TitleText("loading", 0, "")
  /\ hintEl' = HintText("empty", 0, 0)
  /\ latest' = Null
  /\ loads' = Append(loads, [sel |-> s, pc |-> "latest"])
  /\ UNCHANGED << thead, tbody, archive >>

\* loadStrategy from its call to the first await, for the selected option s
StartLoad(s) ==
  /\ metaEl' = MetaText("loading", s)
  /\ linksEl' = NoLinks
  /\ thead' = Null
  /\ tbody' = <<>>
  /\ titleEl' = TitleText("loading", 0, "")
  /\ hintEl' = HintText("empty", 0, 0)
  /\ latest' = Null
  /\ archive' = Null
  /\ loads' = Append(loads, [sel |-> s, pc |-> "latest"])

\* main(): the manifest is there, the first option is selected, the first
\* loadStrategy starts
Main ==
  /\ loads = <<>> /\ metaEl.k = "empty"
  /\ strategySelect' = 1
  /\ StartLoad(1)
  /\ UNCHANGED << viewSelect, gateSelect, gateOnly, search, sortByView, events, call, result >>

\* main(): the manifest cannot be loaded or lists no strategy
MainWithoutStrategies ==
  /\ loads = <<>> /\ metaEl.k = "empty"
  /\ \E k \in {"manifest_error", "no_strategies"} : metaEl' = MetaText(k, 0)
  /\ UNCHANGED << strategySelect, viewSelect, gateSelect, gateOnly, search, latest, archive,
                  sortByView, linksEl, thead, tbody, titleEl, hintEl, loads, events,
                  call, result >>

\* change of #strategySelect: loadStrategy
StrategyChange(s) ==
  /\ Listening /\ events < MaxEvents /\ Len(loads) < MaxLoads
  /\ s # strategySelect
  /\ strategySelect' = s
  /\ events' = events + 1
  /\ StartLoad(s)
  /\ UNCHANGED << viewSelect, gateSelect, gateOnly, search, sortByView, call, result >>

\* load i: loadJSON(latestPath) throws
LatestFails(i) ==
  /\ loads[i].pc = "latest"
  /\ loads' = [loads EXCEPT ![i].pc = "done"]
  /\ metaEl' = MetaText("latest_error", loads[i].sel)
  /\ UNCHANGED << strategySelect, viewSelect, gateSelect, gateOnly, search, latest, archive,
                  sortByView, linksEl, thead, tbody, titleEl, hintEl, events, call, result >>

\* load i: latest.json arrives without paths.archive
LatestWithoutArchivePath(i) ==
  /\ loads[i].pc = "latest"
  /\ loads' = [loads EXCEPT ![i].pc = "done"]
  /\ latest' = LatestObject(loads[i].sel, i, FALSE)
  /\ metaEl' = MetaText("no_archive_path", loads[i].sel)
  /\ UNCHANGED << strategySelect, viewSelect, gateSelect, gateOnly, search, archive,
                  sortByView, linksEl, thead, tbody, titleEl, hintEl, events, call, result >>

\* load i: latest.json arrives and the archive is requested
LatestLoaded(i) ==
  /\ loads[i].pc = "latest"
  /\ loads' = [loads EXCEPT ![i].pc = "archive"]
  /\ latest' = LatestObject(loads[i].sel, i, TRUE)
  /\ UNCHANGED << strategySelect, viewSelect, gateSelect, gateOnly, search, archive,
                  sortByView, metaEl, linksEl, thead, tbody, titleEl, hintEl, events,
                  call, result >>

\* a catch branch that returns without a text in #meta
ArchiveFailsSilently(i) ==
  /\ loads[i].pc = "archive"
  /\ loads' = [loads EXCEPT ![i].pc = "done"]
  /\ UNCHANGED << strategySelect, viewSelect, gateSelect, gateOnly, search, latest, archive,
                  sortByView, metaEl, linksEl, thead, tbody, titleEl, hintEl, events, call,
                  result >>

\* load i: loadJSON(archivePath) throws
ArchiveFails(i) ==
  /\ loads[i].pc = "archive"
  /\ loads' = [loads EXCEPT ![i].pc = "done"]
  /\ metaEl' = MetaText("archive_error", loads[i].sel)
  /\ UNCHANGED << strategySelect, viewSelect, gateSelect, gateOnly, search, latest, archive,
                  sortByView, linksEl, thead, tbody, titleEl, hintEl, events, call, result >>

\* load i: the archive arrives; meta, links, default sort, render
ArchiveLoaded(i) ==
  /\ loads[i].pc = "archive"
  /\ loads' = [loads EXCEPT ![i].pc = "done"]
  /\ archive' = ArchiveObject(loads[i].sel, i)
  /\ metaEl' = MetaText("report", loads[i].sel)
  /\ linksEl' = buildLinks(latest)
  /\ render(ArchiveObject(loads[i].sel, i), viewSelect, strategySelect, gateSelect,
            gateOnly, search, SortInit(sortByView, viewSelect))
  /\ UNCHANGED << strategySelect, viewSelect, gateSelect, gateOnly, search, latest, events,
                  call, result >>

\* change of #viewSelect
ViewChange(v) ==
  /\ Listening /\ events < MaxEvents
  /\ v # viewSelect
  /\ viewSelect' = v
  /\ events' = events + 1
  /\ render(archive, v, strategySelect, gateSelect, gateOnly, search, SortInit(sortByView, v))
  /\ UNCHANGED << strategySelect, gateSelect, gateOnly, search, latest, archive, metaEl,
                  linksEl, loads, call, result >>

\* change of #gateSelect
GateChange(g) ==
  /\ Listening /\ events < MaxEvents
  /\ g # gateSelect
  /\ gateSelect' = g
  /\ events' = events + 1
  /\ render(archive, viewSelect, strategySelect, g, gateOnly, search, sortByView)
  /\ UNCHANGED << strategySelect, viewSelect, gateOnly, search, latest, archive, metaEl,
                  linksEl, loads, call, result >>

\* change of #gateOnly
GateOnlyToggle ==
  /\ Listening /\ events < MaxEvents
  /\ gateOnly' = ~gateOnly
  /\ events' = events + 1
  /\ render(archive, viewSelect, strategySelect, gateSelect, ~gateOnly, search, sortByView)
  /\ UNCHANGED << strategySelect, viewSelect, gateSelect, search, latest, archive, metaEl,
                  linksEl, loads, call, result >>

\* input in #search
SearchInput(q) ==
  /\ Listening /\ events < MaxEvents
  /\ q # search
  /\ search' = q
  /\ events' = events + 1
  /\ render(archive, viewSelect, strategySelect, gateSelect, gateOnly, q, sortByView)
  /\ UNCHANGED << strategySelect, viewSelect, gateSelect, gateOnly, latest, archive, metaEl,
                  linksEl, loads, call, result >>

\* sortByView[view] || cfg.defaultSort
CurrentSort(sbv, view) == IF sbv[view] = Null THEN DefaultSort(view) ELSE sbv[view]

\* an onSort that never toggles
NextDirAlwaysDesc(cur, key) == "desc"

\* the direction onSort sets: the other one on the sorted column, else desc
NextDir(cur, key) ==
  IF cur.key = key THEN (IF cur.dir = "desc" THEN "asc" ELSE "desc") ELSE "desc"

\* click on the header cell of column key: onSort(key)
OnSort(key) ==
  /\ Listening /\ events < MaxEvents
  /\ thead # Null
  /\ \E j \in 1..Len(ViewCols(thead.view)) : ViewCols(thead.view)[j] = key
  /\ events' = events + 1
  /\ render(archive, viewSelect, strategySelect, gateSelect, gateOnly, search,
            [sortByView EXCEPT ![viewSelect] =
               [key |-> key, dir |-> NextDir(CurrentSort(sortByView, viewSelect), key)]])
  /\ UNCHANGED << strategySelect, viewSelect, gateSelect, gateOnly, search, latest, archive,
                  metaEl, linksEl, loads, call, result >>

Init ==
  /\ PageIdle
  /\ call = NoCall
  /\ result = NoCall

Next ==
  \/ Main
  \/ MainWithoutStrategies
  \/ \E s \in Strategies : StrategyChange(s)
  \/ \E i \in 1..Len(loads) : LatestFails(i)
  \/ \E i \in 1..Len(loads) : LatestWithoutArchivePath(i)
  \/ \E i \in 1..Len(loads) : LatestLoaded(i)
  \/ \E i \in 1..Len(loads) : ArchiveFails(i)
  \/ \E i \in 1..Len(loads) : ArchiveLoaded(i)
  \/ \E v \in Views : ViewChange(v)
  \/ \E g \in GateOptions : GateChange(g)
  \/ GateOnlyToggle
  \/ \E q \in Queries : SearchInput(q)
  \/ \E key \in ClickKeys : OnSort(key)

Spec == Init /\ [][Next]_vars

---------------------------------------------------------------------------
(* The page: properties of the loader and of the rendered table *)

\* the load started last
NewestLoad == Len(loads)

\* C1: a load's result is applied to the shared state only while that load
\* is the most recently started one, so latest and archive are never those of
\* a superseded load and every displayed row belongs to the selected strategy.
C1_StaleLoadDiscarded ==
  /\ latest # Null => latest.load = NewestLoad
  /\ archive # Null => archive.load = NewestLoad
  /\ \A i \in 1..Len(tbody) : tbody[i].row \in RowsOfStrategy(strategySelect)

\* the pair (latest, archive) is empty or was produced by one load
PairFromOneLoad ==
  \/ latest = Null /\ archive = Null
  \/ latest # Null /\ archive # Null /\ latest.load = archive.load

\* the links shown and the rows shown come from the same load
LinksAndRowsFromOneLoad ==
  (linksEl.k = "links" /\ archive # Null) => linksEl.load = archive.load

\* C2: in every state between asynchronous steps latest and archive are both
\* empty or both produced by the same load, and the links built from latest
\* never stand next to rows of another load's archive.
C2_AtomicReplace == PairFromOneLoad /\ LinksAndRowsFromOneLoad

\* the stats of the row carry a numeric trades value below the minimum
FewTrades(row) ==
  /\ Truthy(normalizeStats(Get(row, "stats")))
  /\ normalizeStats(Get(row, "stats")).trades.t = "num"
  /\ normalizeStats(Get(row, "stats")).trades.n < MIN_TRADES

\* C4: every rendered row whose stats carry a numeric trades value below 20
\* shows the NA band on its rank dot, whatever its score is.
C4_TradeGateOnDot ==
  \A i \in 1..Len(tbody) : FewTrades(tbody[i].row) => tbody[i].dot = "rank-na"

\* C8: whenever a preset other than Off is selected, no row failing that
\* preset's gate evaluation is present in the rendered table.
C8_GateFiltersTable ==
  gateSelect \in DefinedPresets =>
    \A i \in 1..Len(tbody) : evalGate(tbody[i].row, gatePreset(gateSelect)).pass

---------------------------------------------------------------------------
(* Text filter: applyTextFilter applied to bounded row lists and queries *)

MaxFilterLen == 3

FilterPool ==
  { [symbol |-> Str(<<"A", "B">>), universe |-> Str(<<"d", "a", "x">>)],
    [symbol |-> Str(<<"c", "d">>), universe |-> Str(<<"S", "P">>)],
    [symbol |-> Null, universe |-> Str(<<"s", "d", "a", "x">>)],
    [universe |-> Str(<<"A", "b">>)],
    [symbol |-> Str(<<"b", "a">>)] }

RECURSIVE FilterLists(_)
FilterLists(n) ==
  IF n = 0 THEN {<<>>}
  ELSE FilterLists(n - 1) \cup
       {Append(l, r) : l \in {x \in FilterLists(n - 1) : Len(x) = n - 1}, r \in FilterPool}

FilterQueries ==
  {Null, Undef, Str(<<>>), Str(<<"a">>), Str(<<"A">>), Str(<<"a", "b">>), Str(<<"S", "P">>),
   Str(<<"d", "a">>), Str(<<"x", "y">>)}

InitFilter ==
  /\ PageIdle
  /\ call \in {[op |-> "applyTextFilter", rows |-> l, q |-> q] :
                 l \in FilterLists(MaxFilterLen), q \in FilterQueries}
  /\ result = NoCall

ApplyTextFilterCall ==
  /\ call.op = "applyTextFilter" /\ result = NoCall
  /\ result' = [op |-> "applyTextFilter", v |-> applyTextFilter(call.rows, call.q)]
  /\ UNCHANGED << uiVars, call >>

NextFilter == ApplyTextFilterCall

SpecFilter == InitFilter /\ [][NextFilter]_vars

\* the text of a field, empty when the record has none
FieldText(r, key) == IF key \in DOMAIN r /\ r[key].t = "str" THEN r[key].s ELSE <<>>

\* q occurs in s as a block of consecutive characters
Contains(s, q) ==
  \E k \in 0..(Len(s) - Len(q)) : \A j \in 1..Len(q) : s[k + j] = q[j]

\* the positions of the records the query selects
KeptPositions(rows, q) ==
  {i \in 1..Len(rows) :
     \/ Contains(ToLowerCase(FieldText(rows[i], "symbol")), ToLowerCase(q))
     \/ Contains(ToLowerCase(FieldText(rows[i], "universe")), ToLowerCase(q))}

\* out is rows restricted to the positions kept, in the order of rows
IsSelection(out, rows, kept) ==
  /\ Len(out) = Cardinality(kept)
  /\ \A i \in kept : out[1 + Cardinality({k \in kept : k < i})] = rows[i]

\* C11: with an empty or absent query the filter returns all records
\* unchanged; with a non-empty query it returns, in their original order,
\* exactly the records whose symbol or universe, lower-cased, contains the
\* lower-cased query.
C11_TextFilter ==
  result.op = "applyTextFilter" =>
    IF call.q.t # "str" \/ call.q.s = <<>>
    THEN result.v = call.rows
    ELSE IsSelection(result.v, call.rows, KeptPositions(call.rows, call.q.s))

\* a query matching one record by its universe only, in another case, and
\* not matching a second record
C11_Witness ==
  /\ result.op = "applyTextFilter"
  /\ call.q = Str(<<"S", "P">>)
  /\ Len(call.rows) = 3
  /\ Len(result.v) = 1
  /\ result.v[1].universe = Str(<<"S", "P">>)

---------------------------------------------------------------------------
(* CSV parsing *)

Quote == "\""

\* text[i], undefined behind the end
CharAt(text, i) == IF i >= 1 /\ i <= Len(text) THEN text[i] ELSE "<undefined>"

\* /^[+-]?\d+(\.\d+)?(e[+-]?\d+)?$/i on the parts of a cell
IsDigits(s) == s # <<>> /\ AllDigits(s)

IsDecimalPattern(m, dot) ==
  IF dot = 0 THEN IsDigits(m)
  ELSE IsDigits(SubSeq(m, 1, dot - 1)) /\ IsDigits(SubSeq(m, dot + 1, Len(m)))

IsExponentPattern(x) ==
  IF x # <<>> /\ Head(x) \in {"+", "-"} THEN IsDigits(Tail(x)) ELSE IsDigits(x)

IsUnsignedPattern(u, ex) ==
  IF ex = 0 THEN IsDecimalPattern(u, IndexOf(u, "."))
  ELSE /\ IsDecimalPattern(SubSeq(u, 1, ex - 1), IndexOf(SubSeq(u, 1, ex - 1), "."))
       /\ IsExponentPattern(SubSeq(u, ex + 1, Len(u)))

MatchesNumberPattern(s) ==
  IF s # <<>> /\ Head(s) \in {"+", "-"} THEN IsUnsignedPattern(Tail(s), ExponentAt(Tail(s)))
  ELSE IsUnsignedPattern(s, ExponentAt(s))

\* the typed value of the trimmed cell val, n being Number(val)
TypedCell(val, n) ==
  IF val = <<>> THEN Null
  ELSE IF n.t # "nan" /\ MatchesNumberPattern(val) THEN n
  ELSE Str(val)

CellValue(val) == TypedCell(val, StringToNumber(val))

\* (arr[k] ?? "").trim()
CellText(arr, k) == IF k <= Len(arr) THEN Trim(arr[k]) ELSE <<>>

\* the last column of the header named key: a later assignment overwrites
LastColumn(header, key) ==
  CHOOSE k \in 1..Len(header) :
    header[k] = key /\ \A j \in (k + 1)..Len(header) : header[j] # key

\* the object built from the cells arr of one data row
RowObject(header, arr) ==
  [key \in {header[k] : k \in {j \in 1..Len(header) : header[j] # <<>>}} |->
     CellValue(CellText(arr, LastColumn(header, key)))]

\* rows[0].map(h => (h || "").trim())
HeaderOf(cells) == [k \in 1..Len(cells) |-> Trim(cells[k])]

\* the arrays of the data rows: an array without cells is skipped
DataArrays(rows) == SelectSeq(Tail(rows), LAMBDA arr : Len(arr) # 0)

ObjectsFrom(header, arrs) == [r \in 1..Len(arrs) |-> RowObject(header, arrs[r])]

\* the objects of the data rows
ObjectsOf(header, rows) == ObjectsFrom(header, DataArrays(rows))

\* the scanner of parseCSV before it has read anything
ScanStart == [i |-> 1, field |-> <<>>, row |-> <<>>, rows |-> <<>>, inQuotes |-> FALSE]

\* ScanStep for which every quote inside a quoted field ends the field
ScanStepNoEscape(st, c, c2) ==
  IF st.inQuotes
  THEN IF c = Quote THEN [st EXCEPT !.inQuotes = FALSE, !.i = @ + 1]
       ELSE [st EXCEPT !.field = Append(@, c), !.i = @ + 1]
  ELSE IF c = Quote THEN [st EXCEPT !.inQuotes = TRUE, !.i = @ + 1]
  ELSE IF c = "," THEN [st EXCEPT !.row = Append(@, st.field), !.field = <<>>, !.i = @ + 1]
  ELSE IF c = "\n"
  THEN [st EXCEPT !.rows = Append(@, Append(st.row, st.field)), !.row = <<>>,
                  !.field = <<>>, !.i = @ + 1]
  ELSE IF c = "\r" THEN [st EXCEPT !.i = @ + 1]
  ELSE [st EXCEPT !.field = Append(@, c), !.i = @ + 1]

\* one pass of the while loop: c is text[i], c2 is text[i + 1]
ScanStep(st, c, c2) ==
  IF st.inQuotes
  THEN IF c = Quote
       THEN IF c2 = Quote
            THEN [st EXCEPT !.field = Append(@, Quote), !.i = @ + 2]
            ELSE [st EXCEPT !.inQuotes = FALSE, !.i = @ + 1]
       ELSE [st EXCEPT !.field = Append(@, c), !.i = @ + 1]
  ELSE IF c = Quote THEN [st EXCEPT !.inQuotes = TRUE, !.i = @ + 1]
  ELSE IF c = "," THEN [st EXCEPT !.row = Append(@, st.field), !.field = <<>>, !.i = @ + 1]
  ELSE IF c = "\n"
  THEN [st EXCEPT !.rows = Append(@, Append(st.row, st.field)), !.row = <<>>,
                  !.field = <<>>, !.i = @ + 1]
  ELSE IF c = "\r" THEN [st EXCEPT !.i = @ + 1]
  ELSE [st EXCEPT !.field = Append(@, c), !.i = @ + 1]

RECURSIVE ScanFrom(_, _)
ScanFrom(text, st) ==
  IF st.i > Len(text) THEN st
  ELSE ScanFrom(text, ScanStep(st, CharAt(text, st.i), CharAt(text, st.i + 1)))

\* ScanEnd that looks at row.length only
ScanEndRowOnly(st) ==
  IF st.row # <<>> THEN Append(st.rows, Append(st.row, st.field)) ELSE st.rows

\* the last field: if (field.length || row.length)
ScanEnd(st) ==
  IF st.field # <<>> \/ st.row # <<>> THEN Append(st.rows, Append(st.row, st.field))
  ELSE st.rows

\* the arrays of cells parseCSV reads from the text
ScanRows(text) == ScanEnd(ScanFrom(text, ScanStart))

\* the objects parseCSV makes of the arrays of cells
ObjectsOfRows(rows) == IF rows = <<>> THEN <<>> ELSE ObjectsOf(HeaderOf(rows[1]), rows)

parseCSV(text) == ObjectsOfRows(ScanRows(text))

\* The line-based parser of the snapshot with buildStatsLookup

\* the byte-order mark, as one character
BOM == "<BOM>"

stripBOM(s) == IF s # <<>> /\ Head(s) = BOM THEN Tail(s) ELSE s

\* s.replace(/\r/g, "")
WithoutCR(s) == SelectSeq(s, LAMBDA c : c # "\r")

\* s.split("\n")
RECURSIVE SplitLines(_, _)
SplitLines(s, cur) ==
  IF s = <<>> THEN <<cur>>
  ELSE IF Head(s) = "\n" THEN <<cur>> \o SplitLines(Tail(s), <<>>)
  ELSE SplitLines(Tail(s), Append(cur, Head(s)))

\* .filter(Boolean)
NonEmptyLines(lines) == SelectSeq(lines, LAMBDA l : l # <<>>)

LinesOf(text) == NonEmptyLines(SplitLines(WithoutCR(stripBOM(text)), <<>>))

SplitStart == [i |-> 1, cur |-> <<>>, res |-> <<>>, inQ |-> FALSE]

\* one pass of the for loop of splitCSVLine: c is line[i], c2 is line[i + 1]
SplitStep(st, c, c2) ==
  IF st.inQ
  THEN IF c = Quote
       THEN IF c2 = Quote
            THEN [st EXCEPT !.cur = Append(@, Quote), !.i = @ + 2]
            ELSE [st EXCEPT !.inQ = FALSE, !.i = @ + 1]
       ELSE [st EXCEPT !.cur = Append(@, c), !.i = @ + 1]
  ELSE IF c = Quote THEN [st EXCEPT !.inQ = TRUE, !.i = @ + 1]
  ELSE IF c = "," THEN [st EXCEPT !.res = Append(@, st.cur), !.cur = <<>>, !.i = @ + 1]
  ELSE [st EXCEPT !.cur = Append(@, c), !.i = @ + 1]

RECURSIVE SplitFrom(_, _)
SplitFrom(line, st) ==
  IF st.i > Len(line) THEN st
  ELSE SplitFrom(line, SplitStep(st, CharAt(line, st.i), CharAt(line, st.i + 1)))

\* res.push(cur); return res
SplitEnd(st) == Append(st.res, st.cur)

splitCSVLine(line) == SplitEnd(SplitFrom(line, SplitStart))

\* the arrays of cells of the non-empty lines
SplitAll(lines) == [i \in 1..Len(lines) |-> splitCSVLine(lines[i])]

LineRows(text) == SplitAll(LinesOf(text))

\* parseCSV of that snapshot
parseCSVByLine(text) == ObjectsOfRows(LineRows(text))

---------------------------------------------------------------------------
(* CSV parsing: both parsers applied to bounded texts *)

MaxTextLen == 5
MaxTableRows == 2

TextAlphabet == {"a", ",", Quote, "\n", " "}

RECURSIVE TextsUpTo(_)
TextsUpTo(n) ==
  IF n = 0 THEN {<<>>}
  ELSE TextsUpTo(n - 1) \cup
       {Append(s, c) : s \in {x \in TextsUpTo(n - 1) : Len(x) = n - 1}, c \in TextAlphabet}

\* the fields a known table is made of
TableFields ==
  {<<>>, <<"x">>, <<"a", ",", "b">>, <<"q", Quote, "q">>, <<" ", "1", "2">>}

TableLines == {<<f>> : f \in TableFields} \cup {<<f, g>> : f \in TableFields, g \in TableFields}

TableHeader == <<<<"h">>, <<"k">>>>

RECURSIVE TablesUpTo(_)
TablesUpTo(n) ==
  IF n = 0 THEN {<<TableHeader>>}
  ELSE TablesUpTo(n - 1) \cup
       {Append(tb, l) : tb \in {x \in TablesUpTo(n - 1) : Len(x) = n}, l \in TableLines}

\* a field as a writer puts it: quoted, with its quotes doubled, when it holds
\* the delimiter or a quote or is the lone empty field of its line
RECURSIVE DoubledQuotes(_)
DoubledQuotes(f) ==
  IF f = <<>> THEN <<>>
  ELSE IF Head(f) = Quote THEN <<Quote, Quote>> \o DoubledQuotes(Tail(f))
  ELSE <<Head(f)>> \o DoubledQuotes(Tail(f))

WriteField(f, lone) ==
  IF (\E i \in 1..Len(f) : f[i] \in {",", Quote}) \/ (lone /\ f = <<>>)
  THEN <<Quote>> \o DoubledQuotes(f) \o <<Quote>>
  ELSE f

RECURSIVE WriteLine(_)
WriteLine(l) ==
  IF Len(l) = 1 THEN WriteField(l[1], FALSE)
  ELSE WriteField(Head(l), FALSE) \o <<",">> \o WriteLine(Tail(l))

WriteRow(l) == IF Len(l) = 1 THEN WriteField(l[1], TRUE) ELSE WriteLine(l)

\* the lines joined by line breaks; the last one ends with one iff closed
RECURSIVE WriteTable(_, _)
WriteTable(tb, closed) ==
  IF Len(tb) = 1 THEN WriteRow(tb[1]) \o (IF closed THEN <<"\n">> ELSE <<>>)
  ELSE WriteRow(Head(tb)) \o <<"\n">> \o WriteTable(Tail(tb), closed)

Parsers == {"parseCSV", "parseCSVByLine"}

InitCsv ==
  /\ PageIdle
  /\ call \in {[op |-> p, text |-> s, table |-> <<>>] : p \in Parsers, s \in TextsUpTo(MaxTextLen)}
            \cup {[op |-> p, text |-> WriteTable(tb, closed), table |-> tb] :
                    p \in Parsers, tb \in TablesUpTo(MaxTableRows), closed \in BOOLEAN}
  /\ result = NoCall

ParseCSVCall ==
  /\ call.op = "parseCSV" /\ result = NoCall
  /\ result' = [op |-> "parseCSV", cells |-> ScanRows(call.text), v |-> parseCSV(call.text)]
  /\ UNCHANGED << uiVars, call >>

ParseCSVByLineCall ==
  /\ call.op = "parseCSVByLine" /\ result = NoCall
  /\ result' = [op |-> "parseCSVByLine", cells |-> LineRows(call.text),
                v |-> parseCSVByLine(call.text)]
  /\ UNCHANGED << uiVars, call >>

NextCsv == ParseCSVCall \/ ParseCSVByLineCall

SpecCsv == InitCsv /\ [][NextCsv]_vars

\* the typed value of a written field: null when blank, the number when it is
\* digits, the text without surrounding blanks otherwise
ExpectedCell(f) ==
  IF Trim(f) = <<>> THEN Null
  ELSE IF AllDigits(Trim(f)) THEN Num(100 * DigitsValue(Trim(f)))
  ELSE Str(Trim(f))

\* the objects are those of the data lines of the table, column by column
ObjectsMatchTable(v, tb) ==
  /\ Len(v) = Len(tb) - 1
  /\ \A r \in 1..Len(v) :
       /\ DOMAIN v[r] = {TableHeader[1], TableHeader[2]}
       /\ v[r][TableHeader[1]] = ExpectedCell(tb[r + 1][1])
       /\ v[r][TableHeader[2]] =
            (IF Len(tb[r + 1]) >= 2 THEN ExpectedCell(tb[r + 1][2]) ELSE Null)

OpenEnd(text) == text = <<>> \/ text[Len(text)] # "\n"

\* the last line of the table is a lone empty field
LoneEmptyLast(tb) == tb[Len(tb)] = <<<<>>>>

QuotesBefore(s, i) == Cardinality({j \in 1..(i - 1) : s[j] = Quote})

\* index i of s is outside every quoted field
Unquoted(s, i) == QuotesBefore(s, i) % 2 = 0

\* s ends inside a quoted field that was never closed
OddQuotes(s) == QuotesBefore(s, Len(s) + 1) % 2 = 1

\* the line breaks of s that end a row of the character scanner
UnquotedBreaks(s) == {i \in 1..Len(s) : s[i] = "\n" /\ Unquoted(s, i)}

Highest(S) == IF S = {} THEN 0 ELSE CHOOSE i \in S : \A j \in S : j <= i

\* what follows the last of the positions S in s
After(s, S) == SubSeq(s, Highest(S) + 1, Len(s))

\* the last line as written: what follows the last line break
LastPlainLine(s) ==
  After(SubSeq(s, 1, Highest({i \in 1..Len(s) : s[i] # "\n"})),
        {i \in 1..Len(s) : s[i] = "\n" /\ i < Highest({j \in 1..Len(s) : s[j] # "\n"})})

\* the number of lines of s that are not empty
PlainLineCount(s) ==
  Cardinality({i \in 1..Len(s) : s[i] # "\n" /\ (i = 1 \/ s[i - 1] = "\n")})

IsSuffix(x, s) == Len(x) <= Len(s) /\ SubSeq(s, Len(s) - Len(x) + 1, Len(s)) = x

\* row holds the cells of the segment seg, whose last field was left open:
\* one cell more than unquoted delimiters, the last one ending with what
\* follows the last quote
OpenFieldKept(row, seg) ==
  /\ Len(row) = 1 + Cardinality({i \in 1..Len(seg) : seg[i] = "," /\ Unquoted(seg, i)})
  /\ IsSuffix(After(seg, {i \in 1..Len(seg) : seg[i] = Quote}), row[Len(row)])

\* there is one object for every row behind the header
ObjectPerDataRow(v, cells) == Len(v) = (IF cells = <<>> THEN 0 ELSE Len(cells) - 1)

\* C19 as stated: for a text that ends inside an unterminated quoted field
\* the parser returns the rows read so far and keeps the open field, closed
\* at end of input, as the last cell of the last row.
C19_OpenFieldAlwaysKept ==
  (result.op \in Parsers /\ OddQuotes(call.text)) =>
    /\ Len(result.cells) = Cardinality(UnquotedBreaks(call.text)) + 1
    /\ OpenFieldKept(result.cells[Len(result.cells)], After(call.text, UnquotedBreaks(call.text)))
    /\ ObjectPerDataRow(result.v, result.cells)

\* C19 (amended): every text is parsed without raising, one object per row
\* behind the header.  The character scanner closes an open quoted field at
\* end of input and keeps it as the last cell of the last row, unless the
\* field is empty and the first of its line: then no row is added.  The
\* line-based parser closes an open field at the end of its line.
C19_OpenFieldClosed ==
  /\ result.op \in Parsers => ObjectPerDataRow(result.v, result.cells)
  /\ (result.op = "parseCSV" /\ OddQuotes(call.text)) =>
       IF WithoutCR(After(call.text, UnquotedBreaks(call.text))) = <<Quote>>
       THEN Len(result.cells) = Cardinality(UnquotedBreaks(call.text))
       ELSE /\ Len(result.cells) = Cardinality(UnquotedBreaks(call.text)) + 1
            /\ OpenFieldKept(result.cells[Len(result.cells)],
                             After(call.text, UnquotedBreaks(call.text)))
  /\ result.op = "parseCSVByLine" =>
       /\ Len(result.cells) = PlainLineCount(call.text)
       /\ OddQuotes(LastPlainLine(call.text)) =>
            OpenFieldKept(result.cells[Len(result.cells)], LastPlainLine(call.text))

\* a text ending inside a quoted field that holds a delimiter and a line
\* break, read by the character scanner
C19_Witness ==
  /\ result.op = "parseCSV"
  /\ call.text = <<"a", Quote, ",", "\n", "a">>
  /\ result.cells = <<<<<<"a", ",", "\n", "a">>>>>>
  /\ result.v = <<>>

\* the object has columns and null in every one of them
AllNull(obj) == DOMAIN obj # {} /\ \A k \in DOMAIN obj : obj[k] = Null

\* C20: blank and trailing lines are ignored and a data row whose cells are
\* all empty is dropped: no returned row has null in every column.
C20_NoEmptyRow ==
  result.op \in Parsers => \A r \in 1..Len(result.v) : ~AllNull(result.v[r])


---------------------------------------------------------------------------
(* Join index: the rankings lookup and the enrichment of the rows *)

\* the column names the loaders read from a ranking row
SymbolKey == <<"s", "y", "m", "b", "o", "l">>
TradesKey == <<"t", "r", "a", "d", "e", "s">>
ScoreKey == <<"s", "c", "o", "r", "e">>
MeanRKey == <<"m", "e", "a", "n", "_", "R">>
ProfitFactorKey == <<"p", "r", "o", "f", "i", "t", "_", "f", "a", "c", "t", "o", "r">>
TotalRKey == <<"t", "o", "t", "a", "l", "_", "R">>
MedianRKey == <<"m", "e", "d", "i", "a", "n", "_", "R">>
WinRateKey == <<"w", "i", "n", "_", "r", "a", "t", "e">>
AvgHoldKey == <<"a", "v", "g", "_", "h", "o", "l", "d">>
TpRateKey == <<"t", "p", "_", "r", "a", "t", "e">>
SlRateKey == <<"s", "l", "_", "r", "a", "t", "e">>
TimeRateKey == <<"t", "i", "m", "e", "_", "r", "a", "t", "e">>
ExpectancyRKey == <<"e", "x", "p", "e", "c", "t", "a", "n", "c", "y", "_", "R">>

\* a Map: its entries in insertion order, one per key
MapHas(m, k) == \E i \in 1..Len(m) : m[i].key = k

MapGet(m, k) ==
  IF MapHas(m, k) THEN m[CHOOSE i \in 1..Len(m) : m[i].key = k].value ELSE Undef

MapSet(m, k, v) ==
  IF MapHas(m, k)
  THEN [i \in 1..Len(m) |-> IF m[i].key = k THEN [key |-> k, value |-> v] ELSE m[i]]
  ELSE Append(m, [key |-> k, value |-> v])

\* `${u}__${sym}`
LookupKey(u, sym) == u \o <<"_", "_">> \o sym

\* String(v || "").trim()
TextOrEmpty(v) == IF Truthy(v) THEN Trim(StringOf(v)) ELSE <<>>

\* the stats object buildStatsLookup stores for the ranking row r
RankingStats(r) ==
  StatsObj(Coalesce(Get(r, TradesKey), Null), Coalesce(Get(r, ScoreKey), Null),
           Coalesce(Get(r, MeanRKey), Null), Coalesce(Get(r, ProfitFactorKey), Null))

\* the stats object loadRankingsLookup stores for the ranking row r
LookupStats(r) ==
  [t |-> "obj",
   trades |-> Coalesce(Get(r, TradesKey), Null),
   score |-> Coalesce(Get(r, ScoreKey), Null),
   mean_R |-> Coalesce(Get(r, MeanRKey), Null),
   pf |-> Coalesce(Get(r, ProfitFactorKey), Null),
   profit_factor |-> Coalesce(Get(r, ProfitFactorKey), Null),
   total_R |-> Coalesce(Get(r, TotalRKey), Null),
   median_R |-> Coalesce(Get(r, MedianRKey), Null),
   win_rate |-> Coalesce(Get(r, WinRateKey), Null),
   avg_hold |-> Coalesce(Get(r, AvgHoldKey), Null),
   tp_rate |-> Coalesce(Get(r, TpRateKey), Null),
   sl_rate |-> Coalesce(Get(r, SlRateKey), Null),
   time_rate |-> Coalesce(Get(r, TimeRateKey), Null),
   expectancy_R |-> Coalesce(Get(r, ExpectancyRKey), Null)]

\* the ranking rows that carry a symbol
WithSymbol(rows) == SelectSeq(rows, LAMBDA r : TextOrEmpty(Get(r, SymbolKey)) # <<>>)

\* buildStatsLookup's loop over the rows of universe u
RECURSIVE IndexRows(_, _, _)
IndexRows(m, u, rows) ==
  IF rows = <<>> THEN m
  ELSE IndexRows(MapSet(m, LookupKey(u, TextOrEmpty(Get(Head(rows), SymbolKey))),
                        RankingStats(Head(rows))),
                 u, Tail(rows))

\* loadRankingsLookup's loop over the rows of universe u
RECURSIVE LookupRows(_, _, _)
LookupRows(m, u, rows) ==
  IF rows = <<>> THEN m
  ELSE LookupRows(MapSet(m, LookupKey(u, TextOrEmpty(Get(Head(rows), SymbolKey))),
                         LookupStats(Head(rows))),
                  u, Tail(rows))

\* `${u} (${e.message})`
MissingEntry(u, message) == u \o <<" ", "(">> \o message \o <<")">>

\* `${u}: ${cnt}`
LoadedEntry(u, cnt) == u \o <<":", " ">> \o NatStringOf(cnt)

\* the frame when the loop has gone past universe number i of n
LoopOrReturn(fr, n) == IF fr.i > n THEN [fr EXCEPT !.pc = "returned"] ELSE fr

\* a catch block that gives up on the remaining universes
StatsFailedAbort(fr, u, message, n) ==
  [fr EXCEPT !.missing = Append(@, MissingEntry(u, message)), !.i = n + 1,
             !.pc = "returned"]

\* buildStatsLookup's catch block
StatsFailed(fr, u, message, n) ==
  LoopOrReturn([fr EXCEPT !.missing = Append(@, MissingEntry(u, message)), !.i = @ + 1], n)

\* buildStatsLookup's try block once the text of universe u has arrived
StatsLoaded(fr, u, rows, n) ==
  LoopOrReturn([fr EXCEPT !.map = IndexRows(@, u, WithSymbol(rows)),
                          !.loaded = Append(@, LoadedEntry(u, Len(WithSymbol(rows)))),
                          !.i = @ + 1], n)

\* loadRankingsLookup's catch block: nothing is recorded
LookupFailed(fr, u, message, n) == LoopOrReturn([fr EXCEPT !.i = @ + 1], n)

\* loadRankingsLookup's try block once the text of universe u has arrived
LookupLoaded(fr, u, rows, n) ==
  LoopOrReturn([fr EXCEPT !.map = LookupRows(@, u, WithSymbol(rows)), !.i = @ + 1], n)


\* `{ ...r, stats }`
WithStats(r, stats) ==
  [k \in DOMAIN r \cup {"stats"} |-> IF k = "stats" THEN stats ELSE r[k]]

\* the key of the record r in the lookup
RowKey(r) == LookupKey(TextOrEmpty(Get(r, "universe")), TextOrEmpty(Get(r, "symbol")))

\* a || null for an object or undefined
OrNull(a) == IF Truthy(a) THEN a ELSE Null

\* the record enrichWithStats makes of r, found being statsMap.get(key)
Enriched(r, found) == WithStats(r, OrNull(found))

enrichWithStats(rows, statsMap) ==
  [i \in 1..Len(rows) |-> Enriched(rows[i], MapGet(statsMap, RowKey(rows[i])))]

\* lookup.get(key) || r.stats || null
FoundOrOld(found, old) == IF Truthy(found) THEN found ELSE OrNull(old)

enrichRowsWithStats(rows, lookup) ==
  IF Len(lookup) = 0
  THEN [i \in 1..Len(rows) |-> WithStats(rows[i], Coalesce(Get(rows[i], "stats"), Null))]
  ELSE [i \in 1..Len(rows) |->
          WithStats(rows[i], FoundOrOld(MapGet(lookup, RowKey(rows[i])),
                                        Get(rows[i], "stats")))]

\* a map callback that writes the stats into the record it was given
RowsAfterMapInPlace(rows, out) == out

\* the input array after rows.map(...): the callback builds new objects
RowsAfterMap(rows, out) == rows


---------------------------------------------------------------------------
(* Join index: both loaders run over bounded rankings, then the enrichment *)

MaxJoinRows == 2
MaxUniverses == 2

UniverseD == <<"d">>
UniverseS == <<"s">>

\* the universe names in the order Array.prototype.sort puts them
UniverseNames == <<UniverseD, UniverseS>>

\* ranking files as a writer produces them
RankingD ==
  <<<<SymbolKey, TradesKey, ScoreKey, ProfitFactorKey>>,
    <<<<"A">>, <<"2", "0">>, <<"1", ".", "5">>, <<"i", "n", "f">>>>,
    <<<<"B">>, <<"3", "0">>, <<"0", ".", "4">>, <<"1", ".", "2">>>>>>

RankingS ==
  <<<<SymbolKey, MeanRKey>>,
    <<<<>>, <<"3">>>>,
    <<<<"A">>, <<"2">>>>,
    <<<<"A">>, <<"1">>>>>>

NotFound == [ok |-> FALSE, text |-> <<>>, message |-> <<"4", "0", "4">>]
Found(tb) == [ok |-> TRUE, text |-> WriteTable(tb, TRUE), message |-> <<>>]

Responses == {NotFound, Found(RankingD), Found(RankingS)}

\* what the server answers for the ranking file of each universe
Servers == [{UniverseD, UniverseS} -> Responses]

\* the answer to loadText / fetchText for universe u
Fetch(server, u) == IF u \in DOMAIN server THEN server[u] ELSE NotFound

OldStats == StatsObj(Num(700), Num(20), Null, Num(90))

JoinPool ==
  <<[symbol |-> Str(<<"A">>), universe |-> Str(UniverseD)],
    [symbol |-> Str(<<"A">>), universe |-> Str(<<" ", "d">>), stats |-> Null],
    [symbol |-> Str(<<"B">>), universe |-> Str(UniverseS), stats |-> OldStats],
    [symbol |-> Str(<<"A">>), universe |-> Str(UniverseS), stats |-> OldStats],
    [symbol |-> Str(<<"C">>), universe |-> Str(UniverseD), stats |-> OldStats]>>

JoinLists(n) ==
  UNION {{[i \in 1..k |-> JoinPool[f[i]]] : f \in [1..k -> 1..Len(JoinPool)]} : k \in 0..n}

\* loadStrategy of buildStatsLookup: the trimmed universes of the rows, sorted
SortedUniverses(rows) ==
  SelectSeq(UniverseNames,
            LAMBDA u : \E i \in 1..Len(rows) : TextOrEmpty(Get(rows[i], "universe")) = u)

\* the universes loadStrategy of loadRankingsLookup may pass: those of
\* current.universes or of the rows, untrimmed and in any order
UniverseValues == {Str(UniverseD), Str(<<" ", "d">>), Str(UniverseS)}

UniverseLists(n) ==
  UNION {[1..k -> UniverseValues] : k \in 0..n}

\* Array.from(new Set(universes.map(u => String(u).trim()).filter(Boolean)))
RECURSIVE Distinct(_)
Distinct(s) ==
  IF s = <<>> THEN <<>>
  ELSE LET rest == Distinct(SubSeq(s, 1, Len(s) - 1))
       IN IF \E i \in 1..Len(rest) : rest[i] = s[Len(s)] THEN rest
          ELSE Append(rest, s[Len(s)])

uniqUniverses(universes) ==
  Distinct(SelectSeq([i \in 1..Len(universes) |-> Trim(StringOf(universes[i]))],
                     LAMBDA u : u # <<>>))

LookupFrame(op, universes, rows) ==
  [op |-> op, pc |-> IF universes = <<>> THEN "returned" ELSE "loop", i |-> 1,
   universes |-> universes, map |-> <<>>, missing |-> <<>>, loaded |-> <<>>,
   rowsActive |-> rows]

InitJoin ==
  /\ PageIdle
  /\ call \in {[op |-> "buildStatsLookup", rows |-> rows,
                universes |-> SortedUniverses(rows), server |-> sv] :
                 rows \in JoinLists(MaxJoinRows), sv \in Servers}
            \cup {[op |-> "loadRankingsLookup", rows |-> rows, universes |-> us,
                   server |-> sv] :
                    rows \in JoinLists(MaxJoinRows), us \in UniverseLists(MaxUniverses),
                    sv \in Servers}
  /\ result = NoCall

\* buildStatsLookup up to its first await
BuildStatsLookupCall ==
  /\ call.op = "buildStatsLookup" /\ result = NoCall
  /\ result' = LookupFrame("buildStatsLookup", call.universes, call.rows)
  /\ UNCHANGED << uiVars, call >>

\* loadRankingsLookup up to its first await
LoadRankingsLookupCall ==
  /\ call.op = "loadRankingsLookup" /\ result = NoCall
  /\ result' = LookupFrame("loadRankingsLookup", uniqUniverses(call.universes), call.rows)
  /\ UNCHANGED << uiVars, call >>

Awaiting(op) == result.op = op /\ result.pc = "loop"

Current == result.universes[result.i]

StatsRankingLoaded ==
  /\ Awaiting("buildStatsLookup") /\ Fetch(call.server, Current).ok
  /\ result' = StatsLoaded(result, Current, parseCSVByLine(Fetch(call.server, Current).text),
                           Len(result.universes))
  /\ UNCHANGED << uiVars, call >>

StatsRankingFails ==
  /\ Awaiting("buildStatsLookup") /\ ~Fetch(call.server, Current).ok
  /\ result' = StatsFailed(result, Current, Fetch(call.server, Current).message,
                           Len(result.universes))
  /\ UNCHANGED << uiVars, call >>

LookupRankingLoaded ==
  /\ Awaiting("loadRankingsLookup") /\ Fetch(call.server, Current).ok
  /\ result' = LookupLoaded(result, Current, parseCSV(Fetch(call.server, Current).text),
                            Len(result.universes))
  /\ UNCHANGED << uiVars, call >>

LookupRankingFails ==
  /\ Awaiting("loadRankingsLookup") /\ ~Fetch(call.server, Current).ok
  /\ result' = LookupFailed(result, Current, Fetch(call.server, Current).message,
                            Len(result.universes))
  /\ UNCHANGED << uiVars, call >>

\* loadStrategy after buildStatsLookup has returned
EnrichWithStats ==
  /\ result.op = "buildStatsLookup" /\ result.pc = "returned"
  /\ result' = [result EXCEPT !.pc = "enriched",
                              !.rowsActive = enrichWithStats(@, result.map)]
  /\ UNCHANGED << uiVars, call >>

\* loadStrategy after loadRankingsLookup has returned
EnrichRowsWithStats ==
  /\ result.op = "loadRankingsLookup" /\ result.pc = "returned"
  /\ result' = [result EXCEPT !.pc = "enriched",
                              !.rowsActive = enrichRowsWithStats(@, result.map)]
  /\ UNCHANGED << uiVars, call >>

NextJoin ==
  \/ BuildStatsLookupCall \/ LoadRankingsLookupCall
  \/ StatsRankingLoaded \/ StatsRankingFails
  \/ LookupRankingLoaded \/ LookupRankingFails
  \/ EnrichWithStats \/ EnrichRowsWithStats

SpecJoin == InitJoin /\ [][NextJoin]_vars


---------------------------------------------------------------------------
(* Join index: properties of buildStatsLookup *)

\* the universes of the call whose ranking file the server delivers
Delivered(universes, server) ==
  {k \in 1..Len(universes) : Fetch(server, universes[k]).ok}

\* the text entry names the universe u
Names(entry, u) ==
  Len(entry) > Len(u) + 2 /\ SubSeq(entry, 1, Len(u) + 2) = u \o <<" ", "(">>

\* the rows of a ranking text that carry the symbol sym
RowsOfSymbol(text, sym) ==
  SelectSeq(parseCSVByLine(text), LAMBDA r : TextOrEmpty(Get(r, SymbolKey)) = sym)

\* the symbols of a ranking text
SymbolsOf(text) ==
  {TextOrEmpty(Get(parseCSVByLine(text)[k], SymbolKey)) :
     k \in 1..Len(parseCSVByLine(text))} \ {<<>>}

\* C12: once buildStatsLookup has returned, whichever fetches failed, the map
\* holds for every delivered universe each symbol of its file, with the
\* columns of the last row of that symbol, and the missing list has one entry
\* for each failed universe and none for a delivered one.
C12_PartialFailure ==
  (result.op = "buildStatsLookup" /\ result.pc # "loop") =>
    /\ \A k \in 1..Len(call.universes) :
         IF k \in Delivered(call.universes, call.server)
         THEN /\ \A sym \in SymbolsOf(call.server[call.universes[k]].text) :
                   /\ MapHas(result.map, LookupKey(call.universes[k], sym))
                   /\ LET rs == RowsOfSymbol(call.server[call.universes[k]].text, sym)
                          last == rs[Len(rs)]
                      IN MapGet(result.map, LookupKey(call.universes[k], sym)) =
                           [t |-> "obj", trades |-> Coalesce(Get(last, TradesKey), Null),
                            score |-> Coalesce(Get(last, ScoreKey), Null),
                            mean_R |-> Coalesce(Get(last, MeanRKey), Null),
                            pf |-> Coalesce(Get(last, ProfitFactorKey), Null)]
              /\ \A j \in 1..Len(result.missing) :
                   ~Names(result.missing[j], call.universes[k])
         ELSE \E j \in 1..Len(result.missing) : Names(result.missing[j], call.universes[k])
    /\ Len(result.missing) =
         Len(call.universes) - Cardinality(Delivered(call.universes, call.server))

\* a failed universe is followed by a delivered one, and the call has returned
C12_Witness ==
  /\ result.op = "buildStatsLookup" /\ result.pc = "returned"
  /\ Len(call.universes) = 2
  /\ Delivered(call.universes, call.server) = {2}
  /\ MapHas(result.map, LookupKey(UniverseS, <<"A">>))
  /\ Len(result.missing) = 1


---------------------------------------------------------------------------
(* Join index: properties of loadRankingsLookup and of the enrichment *)

\* the records of rows that belong to the universe u
RowsOfUniverse(rows, u) ==
  {i \in 1..Len(rows) : TextOrEmpty(Get(rows[i], "universe")) = u}

\* the universe u is named in the diagnostics of the finished load
Diagnosed(fr, u) == \E j \in 1..Len(fr.missing) : Names(fr.missing[j], u)

\* C13: when the ranking file of a universe could not be loaded, the universe
\* is recorded in a diagnostic and every record of it ends with stats = null.
C13_FailedUniverseNullStats ==
  (result.op = "loadRankingsLookup" /\ result.pc = "enriched") =>
    \A k \in 1..Len(result.universes) :
      ~Fetch(call.server, result.universes[k]).ok =>
        /\ Diagnosed(result, result.universes[k])
        /\ \A i \in RowsOfUniverse(result.rowsActive, result.universes[k]) :
             result.rowsActive[i].stats = Null


---------------------------------------------------------------------------
(* Enrichment: both functions applied to bounded rows and lookups, twice *)

NewStats == StatsObj(Num(2500), Num(160), Num(10), Str(<<"i", "n", "f">>))

JoinMaps ==
  {<<>>,
   <<[key |-> LookupKey(UniverseD, <<"A">>), value |-> NewStats]>>,
   <<[key |-> LookupKey(UniverseS, <<"A">>), value |-> NewStats],
     [key |-> LookupKey(UniverseD, <<"C">>), value |-> StatsObj(Null, Null, Null, Null)]>>}

Enrichers == {"enrichWithStats", "enrichRowsWithStats"}

InitEnrich ==
  /\ PageIdle
  /\ call \in {[op |-> f, rows |-> rows, lookup |-> m] :
                 f \in Enrichers, rows \in JoinLists(MaxJoinRows), m \in JoinMaps}
  /\ result = NoCall

\* the caller's view once a function has returned out for the argument rows
Returned(op, n, rows, out, first) ==
  [op |-> op, calls |-> n, rows |-> RowsAfterMap(rows, out), v |-> out, first |-> first]

EnrichWithStatsCall ==
  /\ call.op = "enrichWithStats" /\ result = NoCall
  /\ result' = Returned(call.op, 1, call.rows, enrichWithStats(call.rows, call.lookup), <<>>)
  /\ UNCHANGED << uiVars, call >>

EnrichRowsWithStatsCall ==
  /\ call.op = "enrichRowsWithStats" /\ result = NoCall
  /\ result' = Returned(call.op, 1, call.rows, enrichRowsWithStats(call.rows, call.lookup),
                        <<>>)
  /\ UNCHANGED << uiVars, call >>

\* the output of the first call enriched again with the same lookup
EnrichWithStatsAgain ==
  /\ result.op = "enrichWithStats" /\ result.calls = 1
  /\ result' = Returned(call.op, 2, result.v, enrichWithStats(result.v, call.lookup),
                        result.v)
  /\ UNCHANGED << uiVars, call >>

EnrichRowsWithStatsAgain ==
  /\ result.op = "enrichRowsWithStats" /\ result.calls = 1
  /\ result' = Returned(call.op, 2, result.v, enrichRowsWithStats(result.v, call.lookup),
                        result.v)
  /\ UNCHANGED << uiVars, call >>

NextEnrich ==
  \/ EnrichWithStatsCall \/ EnrichRowsWithStatsCall
  \/ EnrichWithStatsAgain \/ EnrichRowsWithStatsAgain

SpecEnrich == InitEnrich /\ [][NextEnrich]_vars

\* the stats the join index holds for the record r, null when it has none
IndexEntry(lookup, r) ==
  IF \E j \in 1..Len(lookup) :
       lookup[j].key = Trim(StringOf(r.universe)) \o <<"_", "_">> \o Trim(StringOf(r.symbol))
  THEN lookup[CHOOSE j \in 1..Len(lookup) :
                lookup[j].key =
                  Trim(StringOf(r.universe)) \o <<"_", "_">> \o Trim(StringOf(r.symbol))].value
  ELSE Null

\* C14: the stats of every output record is the lookup entry of its trimmed
\* universe and symbol, or null when the lookup has none, whatever stats the
\* input record carried.
C14_Overwrite ==
  (result.op \in Enrichers /\ result.calls = 1) =>
    /\ Len(result.v) = Len(call.rows)
    /\ \A i \in 1..Len(call.rows) :
         result.v[i].stats = IndexEntry(call.lookup, call.rows[i])

---------------------------------------------------------------------------
(* Profit factor "inf": from the ranking cell to the gate *)

\* what both CSV parsers store for a cell with the text inf
InfCell == CellValue(<<"i", "n", "f">>)

\* C16: a record whose stats carry the parsed cell "inf" as pf is evaluated
\* with an infinite pf: under every defined preset its reasons say nothing
\* about PF, neither that it is missing nor that it is below the minimum.
C16_InfPassesPfGate ==
  (/\ result.op = "evalGate"
   /\ call.sel \in DefinedPresets
   /\ "stats" \in DOMAIN call.row
   /\ call.row.stats # Null
   /\ call.row.stats.pf = InfCell) =>
    \A j \in 1..Len(result.v.reasons) : result.v.reasons[j].metric # "PF"


---------------------------------------------------------------------------
(* Reward to risk: computeRR applied to bounded rows *)

RRValues == {Undef, Null, NaN, Num(0), Num(250), Str(<<"2", ".", "5">>), Str(<<"x">>)}
BuyValues == {Undef, Num(10000), Num(9000), Str(<<"1", "0", "0">>), Str(<<>>)}
SlValues == {Null, Num(9000), Num(10000), Num(11000), Num(9300)}
TpValues == {Undef, Num(13000), Num(9500), Num(10000), Str(<<"n", "a", "n">>)}

RRRows ==
  {[rr |-> rr, buy |-> buy, sl |-> sl, tp |-> tp] :
     rr \in RRValues, buy \in BuyValues, sl \in SlValues, tp \in TpValues}

InitRR ==
  /\ PageIdle
  /\ call \in {[op |-> "computeRR", row |-> r] : r \in RRRows}
  /\ result = NoCall

ComputeRRCall ==
  /\ call.op = "computeRR" /\ result = NoCall
  /\ result' = [op |-> "computeRR", v |-> computeRR(call.row)]
  /\ UNCHANGED << uiVars, call >>

NextRR == ComputeRRCall

SpecRR == InitRR /\ [][NextRR]_vars

\* q is the quotient num / den cut to hundredths, den being positive
IsQuotient(q, num, den) ==
  /\ q.t = "num"
  /\ q.n * den <= 100 * num
  /\ 100 * num < (q.n + 1) * den

\* what computeRR owes for the four numbers read from a record
RRExpected(v, rr, buy, sl, tp) ==
  IF rr # Null THEN v = rr
  ELSE IF buy = Null \/ sl = Null \/ tp = Null THEN v = Null
  ELSE IF buy.n - sl.n <= 0 THEN v = Null
  ELSE IsQuotient(v, tp.n - buy.n, buy.n - sl.n)

\* C17: computeRR returns the record's own rr when it is a number; otherwise
\* (tp - buy) / (buy - sl) when all three are numbers and buy - sl > 0, and
\* null when one of them is missing or buy - sl <= 0; buy 100, sl 90, tp 130
\* gives 3.
C17_ComputeRR ==
  (result.op = "computeRR") =>
    /\ RRExpected(result.v, toNum(call.row.rr), toNum(call.row.buy), toNum(call.row.sl),
                  toNum(call.row.tp))
    /\ (/\ call.row.rr \in {Undef, Null}
        /\ call.row.buy = Num(10000) /\ call.row.sl = Num(9000)
        /\ call.row.tp = Num(13000)) => result.v = Num(300)

\* the example of the claim has been computed, without an explicit rr
C17_Witness ==
  /\ result.op = "computeRR"
  /\ call.row = [rr |-> Undef, buy |-> Num(10000), sl |-> Num(9000), tp |-> Num(13000)]
  /\ result.v = Num(300)


---------------------------------------------------------------------------
(* Field aliases: the hold renderer and normalizeStats on bounded objects *)

\* what a JSON object may say about one property: nothing, null or a value
Absent == [t |-> "absent", n |-> 0, s |-> <<>>]
AliasValues == {Absent, Null, Num(500), Str(<<"7">>)}

\* the object with the properties of keys that are not absent in vals
ObjectOf(keys, vals) == [k \in {x \in keys : vals[x] # Absent} |-> vals[k]]

HoldAliases == <<"time_stop_bars", "hold_bars", "hold">>
MeanRAliases == <<"mean_R", "meanR">>
PfAliases == <<"pf", "profit_factor">>

Range(s) == {s[i] : i \in 1..Len(s)}

HoldRows == {ObjectOf(Range(HoldAliases), vals) : vals \in [Range(HoldAliases) -> AliasValues]}

\* the stats object with the properties that are not absent in vals
StatsOf(keys, vals) ==
  [k \in {"t"} \cup {x \in keys : vals[x] # Absent} |-> IF k = "t" THEN "obj" ELSE vals[k]]

AliasStats ==
  {StatsOf(Range(MeanRAliases) \cup Range(PfAliases), vals) :
     vals \in [Range(MeanRAliases) \cup Range(PfAliases) -> AliasValues]}

InitAlias ==
  /\ PageIdle
  /\ call \in {[op |-> "hold", obj |-> r] : r \in HoldRows}
            \cup {[op |-> "normalizeStats", obj |-> s] : s \in AliasStats}
  /\ result = NoCall

\* cfg.renderers.hold(row)
HoldRendererCall ==
  /\ call.op = "hold" /\ result = NoCall
  /\ result' = [op |-> "hold", v |-> Renderer("hold", call.obj)]
  /\ UNCHANGED << uiVars, call >>

NormalizeStatsCall ==
  /\ call.op = "normalizeStats" /\ result = NoCall
  /\ result' = [op |-> "normalizeStats", v |-> normalizeStats(call.obj)]
  /\ UNCHANGED << uiVars, call >>

NextAlias == HoldRendererCall \/ NormalizeStatsCall

SpecAlias == InitAlias /\ [][NextAlias]_vars

\* the value of the first alias that is a property of obj, null when none is
FirstPresent(obj, aliases) ==
  IF \E i \in 1..Len(aliases) : aliases[i] \in DOMAIN obj
  THEN obj[aliases[CHOOSE i \in 1..Len(aliases) :
                     /\ aliases[i] \in DOMAIN obj
                     /\ \A j \in 1..(i - 1) : aliases[j] \notin DOMAIN obj]]
  ELSE Null

\* C21: the first alias that is present in the object decides the field, a
\* null value included: hold reads time_stop_bars, hold_bars, hold in this
\* order, meanR reads mean_R, meanR and pf reads pf, profit_factor.
C21_FirstPresentAliasWins ==
  /\ result.op = "hold" => result.v = toNum(FirstPresent(call.obj, HoldAliases))
  /\ result.op = "normalizeStats" =>
       /\ result.v.meanR = toNum(FirstPresent(call.obj, MeanRAliases))
       /\ result.v.pf = toNum(FirstPresent(call.obj, PfAliases))


---------------------------------------------------------------------------
(* The page: failed loads, default sort, header clicks *)

ErrorTexts == {"latest_error", "no_archive_path", "archive_error"}

\* this step ends run i of loadStrategy with an error text in #meta
FailsNow(i) ==
  /\ loads[i].pc # "done" /\ loads'[i].pc = "done"
  /\ metaEl'.k \in ErrorTexts

\* C22: a run of loadStrategy that fails (descriptor or archive not loadable,
\* or no paths.archive) ends with archive = null and an empty table under its
\* error text.
C22_FailedLoadEndsEmpty ==
  [][\A i \in 1..Len(loads) :
       FailsNow(i) => (archive' = Null /\ tbody' = <<>> /\ metaEl'.strategy = loads[i].sel)]_vars


\* score and trades as the table shows them
ShownScore(row) == StatField(normalizeStats(Get(row, "stats")), "score")
ShownTrades(row) == StatField(normalizeStats(Get(row, "stats")), "trades")

\* a comes before b under "desc, NA last"
DescBefore(a, b) == b = Null \/ (a # Null /\ a.n >= b.n)

\* the rows are ordered by score descending, then trades descending
DefaultOrdered(trs) ==
  \A i, j \in 1..Len(trs) :
    i < j =>
      /\ DescBefore(ShownScore(trs[i].row), ShownScore(trs[j].row))
      /\ ShownScore(trs[i].row) = ShownScore(trs[j].row) =>
           DescBefore(ShownTrades(trs[i].row), ShownTrades(trs[j].row))

ScoreDesc == [key |-> "score", dir |-> "desc"]

\* C23: every view starts with the sort state score descending and the
\* tie-break trades descending; only a header click gives a view another sort
\* state, and a table shown under that state lists its rows by score
\* descending, NA scores last, equal scores by trades descending.
C23_DefaultSort ==
  /\ [](/\ \A v \in Views :
             DefaultSort(v) = ScoreDesc /\ TieBreakOf(v) = <<[key |-> "trades", dir |-> "desc"]>>
        /\ thead # Null =>
             /\ thead.sort = sortByView[thead.view]
             /\ thead.sort = ScoreDesc => DefaultOrdered(tbody))
  /\ [][\A v \in Views :
          sortByView'[v] # sortByView[v] =>
            \/ sortByView[v] = Null /\ sortByView'[v] = ScoreDesc
            \/ v = viewSelect /\ \E key \in ClickKeys : OnSort(key)]_vars

\* the active view of strategy 1 is shown in its default order, which is not
\* the order of the file
C23_Witness ==
  /\ thead # Null /\ thead.view = "active" /\ thead.sort = ScoreDesc
  /\ sortByView["edge"] = Null
  /\ Len(tbody) = 3
  /\ tbody[1].row = RowAB /\ tbody[2].row = RowCD /\ tbody[3].row = RowEA


\* the other direction
Opposite(dir) == IF dir = "desc" THEN "asc" ELSE "desc"

\* C24: a click on the header of column k in the shown view sets the view's
\* sort state to k with the opposite direction when the view was sorted by k
\* before, and to k descending when it was sorted by another column.
C24_HeaderClickToggles ==
  [][\A key \in ClickKeys :
       OnSort(key) =>
         /\ sortByView[viewSelect] # Null
         /\ sortByView'[viewSelect].key = key
         /\ sortByView[viewSelect].key = key =>
              sortByView'[viewSelect].dir = Opposite(sortByView[viewSelect].dir)
         /\ sortByView[viewSelect].key # key => sortByView'[viewSelect].dir = "desc"]_vars

\* two clicks on the symbol header after the default sort: descending, then
\* ascending
C24_Witness ==
  /\ thead # Null /\ thead.view = viewSelect
  /\ sortByView[viewSelect] = [key |-> "symbol", dir |-> "asc"]
  /\ thead.sort = [key |-> "symbol", dir |-> "asc"]


\* C25: a header click changes the sort state of the shown view only, and no
\* other step (view change, search or gate input, strategy load) changes a
\* sort state that is already set.
C25_SortStatePerView ==
  [][\A v \in Views :
       /\ (\E key \in ClickKeys : OnSort(key)) /\ v # viewSelect =>
            sortByView'[v] = sortByView[v]
       /\ ~(\E key \in ClickKeys : OnSort(key)) /\ sortByView[v] # Null =>
            sortByView'[v] = sortByView[v]]_vars

\* the active view was sorted by a click, then the edge view was opened: each
\* view has its own state
C25_Witness ==
  /\ viewSelect = "edge"
  /\ sortByView["active"] = [key |-> "symbol", dir |-> "desc"]
  /\ sortByView["edge"] = ScoreDesc
  /\ thead # Null /\ thead.sort = ScoreDesc


---------------------------------------------------------------------------
(* The page: one load in flight *)

\* no run of loadStrategy is waiting for a response
AllDone(ls) == \A j \in 1..Len(ls) : ls[j].pc = "done"

\* the run started last is the only one waiting, and nothing is shown
AloneAndEmpty(ls, arch, body) ==
  /\ ls # <<>> /\ ls[Len(ls)].pc # "done"
  /\ \A j \in 1..(Len(ls) - 1) : ls[j].pc = "done"
  /\ arch = Null
  /\ body = <<>>

\* C26: a load that starts while no other is in flight empties the table, and
\* the table stays empty at every step (view, search, gate and sort events
\* included) until that load has ended or another load has started.
C26_EmptyWhileLoading ==
  [][/\ (AllDone(loads) /\ Len(loads') = Len(loads) + 1) =>
          AloneAndEmpty(loads', archive', tbody')
     /\ (/\ AloneAndEmpty(loads, archive, tbody)
         /\ Len(loads') = Len(loads)
         /\ loads'[Len(loads)].pc # "done") =>
          AloneAndEmpty(loads', archive', tbody')]_vars

\* strategy 1 was loaded and shown, strategy 2 is being loaded, the user has
\* typed into the search box meanwhile, and the table is empty
C26_Witness ==
  /\ Len(loads) = 2 /\ loads[1].pc = "done" /\ loads[2].pc = "archive"
  /\ sortByView["active"] # Null /\ viewSelect = "active"
  /\ events = 2 /\ search = <<"A">>
  /\ archive = Null /\ tbody = <<>>


---------------------------------------------------------------------------
(* Join key: one ranking row indexed, one record enriched *)

MaxNameLen == 2

NameAlphabet == {"a", "_"}

RECURSIVE NamesUpTo(_)
NamesUpTo(n) ==
  IF n = 0 THEN {<<>>}
  ELSE NamesUpTo(n - 1) \cup
       {Append(s, c) : s \in {x \in NamesUpTo(n - 1) : Len(x) = n - 1}, c \in NameAlphabet}

\* universe and symbol names: not empty
KeyNames == NamesUpTo(MaxNameLen) \ {<<>>}

\* a ranking row as parseCSV returns it
RankingRow(sym) == [k \in {SymbolKey, ScoreKey} |-> IF k = SymbolKey THEN Str(sym) ELSE Num(100)]

InitKey ==
  /\ PageIdle
  /\ call \in {[op |-> f, universe |-> u, symbol |-> sym, row |-> [symbol |-> Str(rs), universe |-> Str(ru)]] :
                 f \in Enrichers, u \in KeyNames, sym \in KeyNames, ru \in KeyNames,
                 rs \in KeyNames}
  /\ result = NoCall

\* buildStatsLookup over the one ranking row, then enrichWithStats
IndexAndEnrich ==
  /\ call.op = "enrichWithStats" /\ result = NoCall
  /\ result' = [op |-> call.op,
                v |-> enrichWithStats(<<call.row>>,
                        IndexRows(<<>>, call.universe, WithSymbol(<<RankingRow(call.symbol)>>)))]
  /\ UNCHANGED << uiVars, call >>

\* loadRankingsLookup over the one ranking row, then enrichRowsWithStats
LookupAndEnrich ==
  /\ call.op = "enrichRowsWithStats" /\ result = NoCall
  /\ result' = [op |-> call.op,
                v |-> enrichRowsWithStats(<<call.row>>,
                        LookupRows(<<>>, call.universe, WithSymbol(<<RankingRow(call.symbol)>>)))]
  /\ UNCHANGED << uiVars, call >>

NextKey == IndexAndEnrich \/ LookupAndEnrich

SpecKey == InitKey /\ [][NextKey]_vars

\* C27: a record gets the stats of a ranking row only when its universe and
\* its symbol are those of that row: different pairs never share a lookup
\* entry.
C27_KeyInjective ==
  (result.op \in Enrichers /\ result.v[1].stats # Null) =>
    /\ call.row.universe.s = call.universe
    /\ call.row.symbol.s = call.symbol


---------------------------------------------------------------------------
(* Trade gates: one record evaluated under the three presets *)

InitNest ==
  /\ PageIdle
  /\ call \in {[op |-> "gates", row |-> r] : r \in GateRows}
  /\ result = NoCall

\* evalGate(row, gatePreset(name)) for each name of the dropdown
EvalGatesCall ==
  /\ call.op = "gates" /\ result = NoCall
  /\ result' = [op |-> "gates",
                v |-> [p \in DefinedPresets |-> evalGate(call.row, gatePreset(p))]]
  /\ UNCHANGED << uiVars, call >>

NextNest == EvalGatesCall

SpecNest == InitNest /\ [][NextNest]_vars

\* each minimum of the preset a is at least that of the preset b
AtLeast(a, b) ==
  /\ a.tradesMin >= b.tradesMin /\ a.scoreMin >= b.scoreMin
  /\ a.pfMin >= b.pfMin /\ a.meanRMin >= b.meanRMin

\* C28: the minimums of conservative are at least those of balanced, those
\* of balanced at least those of aggressive, and a record that passes a
\* stricter preset passes every looser one.
C28_PresetsNested ==
  /\ AtLeast(gatePreset("conservative"), gatePreset("balanced"))
  /\ AtLeast(gatePreset("balanced"), gatePreset("aggressive"))
  /\ result.op = "gates" =>
       /\ result.v["conservative"].pass => result.v["balanced"].pass
       /\ result.v["balanced"].pass => result.v["aggressive"].pass

\* a record passes aggressive and balanced but not conservative
C28_Witness ==
  /\ result.op = "gates"
  /\ result.v["aggressive"].pass /\ result.v["balanced"].pass
  /\ ~result.v["conservative"].pass


---------------------------------------------------------------------------
(* Text filter and sort: the two orders in which render applies them *)

CommuteQueries == {<<>>, <<"d">>, <<"s", "p">>, <<"a">>}

InitCommute ==
  /\ PageIdle
  /\ call \in {[op |-> "render", rows |-> l, sortState |-> st, q |-> q] :
                 l \in {x \in RowLists(MaxSortLen) : DistinctRows(x)},
                 st \in SortStates, q \in CommuteQueries}
  /\ result = NoCall

\* render steps 3 and 4 of the gate/sort version: filter, then sort
FilterThenSort ==
  /\ call.op = "render" /\ result = NoCall
  /\ result' = [op |-> "filtered-sorted",
                v |-> sortRows(applyTextFilter(call.rows, Str(call.q)), call.sortState,
                               "active", TieBreakOf("active")),
                w |-> <<>>]
  /\ UNCHANGED << uiVars, call >>

\* the order of the rank-sort version: sort, then filter
SortThenFilter ==
  /\ result.op = "filtered-sorted"
  /\ result' = [op |-> "both", v |-> result.v,
                w |-> applyTextFilter(sortRows(call.rows, call.sortState, "active",
                                               TieBreakOf("active")), Str(call.q))]
  /\ UNCHANGED << uiVars, call >>

NextCommute == FilterThenSort \/ SortThenFilter

SpecCommute == InitCommute /\ [][NextCommute]_vars

\* how often the row r occurs in the list l
Occurrences(l, r) == Cardinality({i \in 1..Len(l) : l[i] = r})

---------------------------------------------------------------------------
(* The page: every loadStrategy run ends *)

\* an option of #strategySelect whose data-path is the empty string
PathlessStrategy == 3

\* change of #strategySelect to the option without a path: loadStrategy returns
\* at `if (!latestPath) return`, before it touches the page
StrategyChangeWithoutPath ==
  /\ Listening /\ events < MaxEvents /\ Len(loads) < MaxLoads
  /\ strategySelect # PathlessStrategy
  /\ strategySelect' = PathlessStrategy
  /\ events' = events + 1
  /\ loads' = Append(loads, [sel |-> PathlessStrategy, pc |-> "done"])
  /\ UNCHANGED << viewSelect, gateSelect, gateOnly, search, latest, archive, sortByView,
                  metaEl, linksEl, thead, tbody, titleEl, hintEl, call, result >>

\* archive?.strategy ?? latest?.strategy ?? sel?.value for an archive that is null
StrategyShown(lat, sel) == IF lat = Null THEN sel ELSE lat.strategy

\* load i: the archive file holds the JSON text null; meta, links, default sort,
\* and a render that returns at `if (!archive) return`
ArchiveLoadedNull(i) ==
  /\ loads[i].pc = "archive"
  /\ loads' = [loads EXCEPT ![i].pc = "done"]
  /\ archive' = Null
  /\ metaEl' = MetaText("report", StrategyShown(latest, loads[i].sel))
  /\ linksEl' = buildLinks(latest)
  /\ render(Null, viewSelect, strategySelect, gateSelect, gateOnly, search,
            SortInit(sortByView, viewSelect))
  /\ UNCHANGED << strategySelect, viewSelect, gateSelect, gateOnly, search, latest, events,
                  call, result >>

NextLoad ==
  \/ Next
  \/ StrategyChangeWithoutPath
  \/ \E i \in 1..Len(loads) : ArchiveLoadedNull(i)

\* the fetch of latest.json of run i resolves or rejects
LatestSettles(i) ==
  /\ i <= Len(loads)
  /\ LatestFails(i) \/ LatestWithoutArchivePath(i) \/ LatestLoaded(i)

\* the fetch of the archive of run i resolves or rejects
ArchiveSettles(i) ==
  /\ i <= Len(loads)
  /\ ArchiveFails(i) \/ ArchiveLoaded(i) \/ ArchiveLoadedNull(i)

SpecLoad ==
  /\ Init
  /\ [][NextLoad]_vars
  /\ \A i \in 1..MaxLoads : WF_vars(LatestSettles(i)) /\ WF_vars(ArchiveSettles(i))

\* run i ends in this step
EndsNow(i) ==
  /\ i <= Len(loads') /\ loads'[i].pc = "done"
  /\ i > Len(loads) \/ loads[i].pc # "done"

\* a failure branch: the text in #meta and nothing else
OnlyMeta(k, i) ==
  /\ metaEl' = MetaText(k, loads[i].sel)
  /\ UNCHANGED << archive, sortByView, linksEl, thead, tbody, titleEl, hintEl >>

\* what render has done when it ran once on the archive arch
Rendered(arch) ==
  /\ sortByView'[viewSelect] # Null
  /\ IF arch = Null
     THEN UNCHANGED << titleEl, hintEl, thead, tbody >>
     ELSE /\ titleEl' = TitleText("title", strategySelect, viewSelect)
          /\ hintEl'.k = "count"
          /\ thead' = [view |-> viewSelect, sort |-> sortByView'[viewSelect]]
          /\ Len(tbody') = hintEl'.shown

\* the way run i ends in this step
Outcome(i) ==
  IF i > Len(loads)
  THEN "no-path"
  ELSE IF loads[i].pc = "latest"
       THEN (IF metaEl'.k = "latest_error" THEN "descriptor-failed" ELSE "archive-path-missing")
       ELSE (IF metaEl'.k = "archive_error" THEN "archive-failed" ELSE "rendered")

OutcomeHolds(i) ==
  /\ Outcome(i) = "no-path" =>
       /\ loads'[i].sel = PathlessStrategy
       /\ UNCHANGED << latest, archive, sortByView, metaEl, linksEl, thead, tbody, titleEl,
                       hintEl >>
  /\ Outcome(i) = "descriptor-failed" => OnlyMeta("latest_error", i) /\ latest' = latest
  /\ Outcome(i) = "archive-path-missing" => OnlyMeta("no_archive_path", i)
  /\ Outcome(i) = "archive-failed" => OnlyMeta("archive_error", i) /\ latest' = latest
  /\ Outcome(i) = "rendered" =>
       /\ metaEl'.k = "report"
       /\ archive' \in {Null, ArchiveObject(loads[i].sel, i)}
       /\ Rendered(archive')

===========================================================================
